---- MODULE Spec2Model ----
(***************************************************************************)
(* Model of the reconciliation pass and the monitoring loop of             *)
(* cloudflare-updater (updater part of src/src/setup.ts, lines 480-992,    *)
(* with src/src/cloudflare.ts, src/src/ip.ts and src/src/config.ts).       *)
(*                                                                         *)
(* Strings that the code splits on '/' are modelled as sequences of        *)
(* tokens: a token is either "/" or a maximal run of characters without a  *)
(* slash, so <<"1.1.1.1", "/", "32">> is the string 1.1.1.1/32.  The empty *)
(* sequence stands for both undefined and the empty string: every test the *)
(* code applies to an IP string (!x, x || y, x && ...) treats the two      *)
(* alike.                                                                  *)
(***************************************************************************)
EXTENDS Integers, Sequences, FiniteSets, TLC

\* ------------------------------------------------------------------ bounds

\* configurations list at most this many zones
MaxZones == 2
\* a zone configuration selects at most this many record ids
MaxSelected == 3
\* the clock of the loop model stops here (seconds)
MaxTime == 125
\* duration of a slow resolver/provider call (seconds), longer than a minute
SlowCall == 61

\* ------------------------------------------------------- program constants

\* setTimeout(resolve, 1000): the sampling period of the loop, in seconds; the
\* timer is taken to fire on time
PollSeconds == 1
\* interval * 60 * 1000: seconds per minute of interval
SecondsPerMinute == 60
\* intervalMinutes || config.updateInterval || 5
DefaultInterval == 5

\* ------------------------------------------------------------------ strings

Undefined == << >>
Slash == "/"

\* String.prototype.includes('/')
Includes(s, tok) == \E i \in 1..Len(s) : s[i] = tok

RECURSIVE SplitFrom(_, _, _)
\* the segments of s from position i on, cur being the segment under way
SplitFrom(s, i, cur) ==
    IF i > Len(s) THEN << cur >>
    ELSE IF s[i] = Slash THEN << cur >> \o SplitFrom(s, i + 1, << >>)
    ELSE SplitFrom(s, i + 1, Append(cur, s[i]))

\* String.prototype.split('/')
Split(s) == SplitFrom(s, 1, << >>)

\* function normalizeIp(ip?: string): string | undefined
normalizeIp(ip) == IF ip = Undefined THEN Undefined ELSE Split(ip)[1]

\* ------------------------------------------------------------ the universe

IPv4A == << "1.1.1.1" >>
IPv4B == << "2.2.2.2" >>
IPv6A == << "2001:db8::1" >>
IPv6B == << "2001:db8::2" >>
Unknown == << "unknown" >>

Cidr(ip, suffix) == ip \o << Slash, suffix >>

ZoneIds == { "z1", "z2" }
ZoneName(z) == IF z = "z1" THEN "one.example" ELSE "two.example"

Rec(id, type, name, content, proxied, ttl) ==
    [ id |-> id, type |-> type, name |-> name, content |-> content,
      proxied |-> proxied, ttl |-> ttl ]

\* the provider's records at the start, per zone, in the provider's order; c1
\* and c3 are the contents of r1 and r3
InitialRecords(c1, c3) ==
    [ z \in ZoneIds |->
        IF z = "z1"
        THEN << Rec("r1", "A", "a.one.example", c1, TRUE, 1),
                Rec("r5", "A", "x.one.example", IPv4A, FALSE, 1),
                Rec("r2", "A", "b.one.example", IPv4B, FALSE, 300),
                Rec("r3", "AAAA", "a.one.example", c3, TRUE, 1) >>
        ELSE << Rec("r4", "A", "a.two.example", IPv4A, FALSE, 120) >> ]

\* record ids a configuration may name; r9 no longer exists at the provider
SelectableIds(z) == IF z = "z1" THEN { "r1", "r2", "r3", "r9" } ELSE { "r4" }

IpInclude(ip) == [ kind |-> "ip", ip |-> ip, ref |-> "" ]
ListInclude(ref) == [ kind |-> "ip_list", ip |-> Undefined, ref |-> ref ]

Pol(id, name, include, reusable) ==
    [ id |-> id, name |-> name, decision |-> "bypass", include |-> include,
      exclude |-> "exclude-of-" \o id, require |-> "require-of-" \o id,
      reusable |-> reusable ]

AppIds == { "app1", "app2" }
AppName(a) == IF a = "app1" THEN "App One" ELSE "App Two"

\* the provider's policies at the start, per application
InitialPolicies ==
    [ a \in AppIds |->
        IF a = "app1"
        THEN << Pol("p1", "office", << ListInclude("list1"),
                                       IpInclude(Cidr(IPv4A, "32")),
                                       IpInclude(Cidr(IPv4B, "24")) >>, FALSE),
                Pol("p2", "home", << IpInclude(IPv4A) >>, TRUE),
                Pol("p3", "lists", << ListInclude("list2") >>, FALSE) >>
        ELSE << Pol("p4", "vpn", << IpInclude(Cidr(IPv4B, "32")) >>, FALSE) >> ]

PolCfg(app, pol) ==
    [ appId |-> app, appName |-> AppName(app), policyId |-> pol,
      policyName |-> "cfg-" \o pol ]

\* the accessPolicies lists a configuration may carry
PolicyLists ==
    { << >>,
      << PolCfg("app1", "p1") >>,
      << PolCfg("app1", "p2"), PolCfg("app1", "p1") >>,
      << PolCfg("app1", "p1"), PolCfg("app2", "p4"), PolCfg("app1", "p2") >>,
      << PolCfg("app1", "p3"), PolCfg("app1", "p1") >>,
      << PolCfg("app2", "p9"), PolCfg("app2", "p4") >> }

ZoneCfg(z, ids) == [ zoneId |-> z, zoneName |-> ZoneName(z), selectedRecordIds |-> ids ]

\* the zone entries a configuration may hold: at least one selected id each
ZoneCfgs ==
    UNION { { ZoneCfg(z, ids) :
                ids \in { s \in SUBSET SelectableIds(z) : Cardinality(s) \in 1..MaxSelected } }
            : z \in ZoneIds }

\* zone lists: distinct zone ids (uniqueness of zoneId is required)
ZoneLists ==
    { zs \in UNION { [ 1..n -> ZoneCfgs ] : n \in 1..MaxZones } :
        \A i, j \in 1..Len(zs) : i # j => zs[i].zoneId # zs[j].zoneId }

NoConfig == [ present |-> FALSE ]

\* interface Config (apiKey and email play no part here); accountId "" is an
\* absent accountId, hasPolicies FALSE an absent list, a webhook URL "" an
\* absent URL
Cfg(zones, accountId, hasPolicies, policies, updateInterval) ==
    [ present |-> TRUE, zones |-> zones, accountId |-> accountId,
      hasPolicies |-> hasPolicies, accessPolicies |-> policies,
      updateInterval |-> updateInterval,
      discordWebhookUrl |-> "", slackWebhookUrl |-> "" ]

\* a configuration with notification endpoints
WithWebhooks(c, discordUrl, slackUrl) ==
    [ c EXCEPT !.discordWebhookUrl = discordUrl, !.slackWebhookUrl = slackUrl ]

\* sendNotification posts to Discord, to Slack or to both if
\* config.discordWebhookUrl or config.slackWebhookUrl is set
WebhookConfigured(c) == c.discordWebhookUrl # "" \/ c.slackWebhookUrl # ""

\* ------------------------------------------------------------- IP resolver

LookupFailed == [ ok |-> FALSE, value |-> Undefined ]
Lookups4 == { LookupFailed } \cup { [ ok |-> TRUE, value |-> ip ] : ip \in { IPv4A, IPv4B } }
Lookups6 == { LookupFailed } \cup { [ ok |-> TRUE, value |-> ip ] : ip \in { IPv6A, IPv6B } }

\* getPublicIPv4 / getPublicIPv6: try { return await lookup } catch { return null }
getPublicIPv4(lookup) == IF lookup.ok THEN lookup.value ELSE Undefined
getPublicIPv6(lookup) == IF lookup.ok THEN lookup.value ELSE Undefined

getPublicIPsAllOrNothing(l4, l6) ==
    IF l4.ok /\ l6.ok THEN [ ipv4 |-> l4.value, ipv6 |-> l6.value ]
    ELSE [ ipv4 |-> Undefined, ipv6 |-> Undefined ]

\* getPublicIPs: both lookups joined, ipv4 || undefined, ipv6 || undefined
getPublicIPs(l4, l6) == [ ipv4 |-> getPublicIPv4(l4), ipv6 |-> getPublicIPv6(l6) ]

\* ---------------------------------------------------------- provider client

\* CloudflareService.getDNSRecords(zoneId, type) on the provider state recs
getDNSRecords(recs, zoneId, type) == SelectSeq(recs[zoneId], LAMBDA r : r.type = type)

ApplyRecordUpdateKeepingContent(recs, zoneId, recordId, content, name, type, proxied, ttl) ==
    [ recs EXCEPT ![zoneId] =
        [ i \in DOMAIN @ |->
            IF @[i].id = recordId
            THEN Rec(recordId, type, name, @[i].content, proxied, ttl)
            ELSE @[i] ] ]

\* the provider state after an accepted dns.records.update(recordId, params)
ApplyRecordUpdate(recs, zoneId, recordId, content, name, type, proxied, ttl) ==
    [ recs EXCEPT ![zoneId] =
        [ i \in DOMAIN @ |->
            IF @[i].id = recordId
            THEN Rec(recordId, type, name, content, proxied, ttl)
            ELSE @[i] ] ]

\* ------------------------------------------------------- updateDNSRecords

SelectRecordsAAAAFirst(recs, zone) ==
    SelectSeq(getDNSRecords(recs, zone.zoneId, "AAAA") \o getDNSRecords(recs, zone.zoneId, "A"),
              LAMBDA r : r.id \in zone.selectedRecordIds)

SelectRecordsUnfiltered(recs, zone) ==
    getDNSRecords(recs, zone.zoneId, "A") \o getDNSRecords(recs, zone.zoneId, "AAAA")

\* allRecords.filter((r) => zone.selectedRecordIds.includes(r.id))
SelectRecords(recs, zone) ==
    SelectSeq(getDNSRecords(recs, zone.zoneId, "A") \o getDNSRecords(recs, zone.zoneId, "AAAA"),
              LAMBDA r : r.id \in zone.selectedRecordIds)

CandidateIPAnyFamily(record, v4, v6) == IF v4 # Undefined THEN v4 ELSE v6

\* the IP to use for a record: ipv4 for A, ipv6 for AAAA, if resolved
CandidateIP(record, v4, v6) ==
    IF record.type = "A" /\ v4 # Undefined THEN v4
    ELSE IF record.type = "AAAA" /\ v6 # Undefined THEN v6
    ELSE Undefined

\* `No ${record.type === 'A' ? 'IPv4' : 'IPv6'} address available`
NoAddressError(record) ==
    IF record.type = "A" THEN "No IPv4 address available" ELSE "No IPv6 address available"

SameIPNever(currentIP, newIP) == FALSE

\* currentIP === newIP
SameIP(currentIP, newIP) == currentIP = newIP

UpdateResult(zone, record, oldIP, newIP, success, error) ==
    [ zoneId |-> zone.zoneId, zoneName |-> zone.zoneName, recordId |-> record.id,
      recordName |-> record.name, oldIP |-> oldIP, newIP |-> newIP,
      success |-> success, error |-> error ]

\* the message of the error a rejected provider call throws
ProviderError == "provider error"

\* the result pushed for one selected record; ok is the outcome of the update
\* call, read only when a call is made
RecordResult(zone, record, v4, v6, ok) ==
    LET currentIP == record.content
        newIP == CandidateIP(record, v4, v6)
    IN  IF newIP = Undefined
        THEN UpdateResult(zone, record, currentIP, currentIP, FALSE, NoAddressError(record))
        ELSE IF SameIP(currentIP, newIP)
        THEN UpdateResult(zone, record, currentIP, newIP, TRUE, "")
        ELSE IF ok
        THEN UpdateResult(zone, record, currentIP, newIP, TRUE, "")
        ELSE UpdateResult(zone, record, currentIP, newIP, FALSE, ProviderError)

RecordNeedsUpdateWhenResolved(record, v4, v6) == CandidateIP(record, v4, v6) # Undefined

\* whether the pass reaches cfService.updateDNSRecord for the record
RecordNeedsUpdate(record, v4, v6) ==
    /\ CandidateIP(record, v4, v6) # Undefined
    /\ ~SameIP(record.content, CandidateIP(record, v4, v6))

MoreRecordsUnlessFailed(i, n, failed) == i < n /\ ~failed

\* the inner for loop goes on to the next selected record, also after the
\* catch of a rejected update (lines 615-628)
MoreRecords(i, n, failed) == i < n

\* ----------------------------------------------------- updateAccessPolicies

\* inc.ip !== undefined / inc.ip truthy: the entry is an IP literal
IsIpInclude(inc) == inc.kind = "ip"

getAccessPoliciesUnfiltered(pols, appId) == pols[appId]

\* CloudflareService.getAccessPolicies: only policies with an IP include
getAccessPolicies(pols, appId) ==
    SelectSeq(pols[appId],
              LAMBDA pol : \E i \in 1..Len(pol.include) : IsIpInclude(pol.include[i]))

\* policies.find((p) => p.id === configPolicy.policyId): its index, 0 if none
FindPolicy(listing, policyId) ==
    IF \E i \in 1..Len(listing) : listing[i].id = policyId
    THEN CHOOSE i \in 1..Len(listing) :
            /\ listing[i].id = policyId
            /\ \A j \in 1..(i - 1) : listing[j].id # policyId
    ELSE 0

\* policy.include.find((inc) => inc.ip)?.ip?.ip
RawPolicyIp(policy) ==
    IF \E i \in 1..Len(policy.include) : IsIpInclude(policy.include[i])
    THEN policy.include[CHOOSE i \in 1..Len(policy.include) :
                            /\ IsIpInclude(policy.include[i])
                            /\ \A j \in 1..(i - 1) : ~IsIpInclude(policy.include[j])].ip
    ELSE Undefined

\* rawPolicyIp && rawPolicyIp.includes('/') ? rawPolicyIp.split('/')[1] : undefined
CidrSuffix(rawPolicyIp) ==
    IF rawPolicyIp # Undefined /\ Includes(rawPolicyIp, Slash)
    THEN Split(rawPolicyIp)[2]
    ELSE Undefined

NewPolicyIpBare(rawPolicyIp, v4) == v4

\* cidrSuffix ? `${ipv4}/${cidrSuffix}` : ipv4
NewPolicyIp(rawPolicyIp, v4) ==
    IF CidrSuffix(rawPolicyIp) # Undefined
    THEN v4 \o << Slash >> \o CidrSuffix(rawPolicyIp)
    ELSE v4

PolicyUnchangedWithoutNormalizing(rawPolicyIp, v4) ==
    rawPolicyIp # Undefined /\ v4 # Undefined /\ rawPolicyIp = v4

\* normalizedCurrent && normalizedNew && normalizedCurrent === normalizedNew
PolicyUnchanged(rawPolicyIp, v4) ==
    /\ normalizeIp(rawPolicyIp) # Undefined
    /\ normalizeIp(v4) # Undefined
    /\ normalizeIp(rawPolicyIp) = normalizeIp(v4)

UpdatedIncludesFirstOnly(policy, newIp) ==
    [ i \in DOMAIN policy.include |->
        IF IsIpInclude(policy.include[i])
           /\ \A j \in 1..(i - 1) : ~IsIpInclude(policy.include[j])
        THEN IpInclude(newIp)
        ELSE policy.include[i] ]

\* updateAccessPolicy: every IP include rewritten, the others passed through
UpdatedIncludes(policy, newIp) ==
    [ i \in DOMAIN policy.include |->
        IF IsIpInclude(policy.include[i]) THEN IpInclude(newIp) ELSE policy.include[i] ]

EndpointAlwaysApplication(policy) == "application"

\* the endpoint updateAccessPolicy submits to
Endpoint(policy) == IF policy.reusable THEN "account" ELSE "application"

\* the provider state after an accepted policy update
ApplyPolicyUpdate(pols, appId, policyId, include) ==
    [ pols EXCEPT ![appId] =
        [ i \in DOMAIN @ |->
            IF @[i].id = policyId THEN [ @[i] EXCEPT !.include = include ] ELSE @[i] ] ]

RECURSIVE AppOrder(_)
\* the keys of appGroups in insertion order: app ids by first appearance
AppOrder(list) ==
    IF list = << >> THEN << >>
    ELSE LET rest == AppOrder(SubSeq(list, 1, Len(list) - 1))
             last == list[Len(list)].appId
         IN  IF \E i \in 1..Len(rest) : rest[i] = last THEN rest ELSE Append(rest, last)

AppGroupsPerPolicy(list) ==
    [ k \in DOMAIN list |->
        [ appId |-> list[k].appId, appName |-> list[k].appName, policies |-> << list[k] >> ] ]

\* Object.entries(appGroups): per app, its name and its configured policies
AppGroups(list) ==
    LET order == AppOrder(list)
    IN  [ k \in DOMAIN order |->
            LET mine == SelectSeq(list, LAMBDA c : c.appId = order[k])
            IN  [ appId |-> order[k], appName |-> mine[1].appName, policies |-> mine ] ]

AccessUpdateResult(appId, appName, policyId, policyName, oldIP, newIP, success, error) ==
    [ appId |-> appId, appName |-> appName, policyId |-> policyId,
      policyName |-> policyName, oldIP |-> oldIP, newIP |-> newIP,
      success |-> success, error |-> error ]

\* whether the pass reaches cfService.updateAccessPolicy for a configured policy
PolicyNeedsUpdate(listing, configPolicy, v4) ==
    /\ FindPolicy(listing, configPolicy.policyId) # 0
    /\ ~PolicyUnchanged(RawPolicyIp(listing[FindPolicy(listing, configPolicy.policyId)]), v4)

\* the result pushed for one configured policy; ok is the outcome of the update
\* call, read only when a call is made
PolicyResult(group, listing, configPolicy, v4, ok) ==
    LET k == FindPolicy(listing, configPolicy.policyId)
    IN  IF k = 0
        THEN AccessUpdateResult(group.appId, group.appName, configPolicy.policyId,
                                configPolicy.policyName, Unknown, v4, FALSE,
                                "Policy not found")
        ELSE LET policy == listing[k]
                 raw == RawPolicyIp(policy)
                 currentIp == IF raw # Undefined THEN raw ELSE Unknown
                 newPolicyIp == NewPolicyIp(raw, v4)
             IN  IF PolicyUnchanged(raw, v4) \/ ok
                 THEN AccessUpdateResult(group.appId, group.appName, policy.id, policy.name,
                                         currentIp, newPolicyIp, TRUE, "")
                 ELSE AccessUpdateResult(group.appId, group.appName, policy.id, policy.name,
                                         currentIp, v4, FALSE, ProviderError)

\* the early return of updateAccessPolicies:
\* !config || !config.accessPolicies || !config.accountId
PoliciesNotConfigured(c) == ~c.present \/ ~c.hasPolicies \/ c.accountId = ""

\* ------------------------------------------------------------ the summary

UpdatedIfSuccess(rs) == SelectSeq(rs, LAMBDA r : r.success)

\* the results a summary counts as updated, unchanged and failed
Updated(rs) == SelectSeq(rs, LAMBDA r : r.success /\ r.oldIP # r.newIP)
Unchanged(rs) == SelectSeq(rs, LAMBDA r : r.success /\ r.oldIP = r.newIP)
Failed(rs) == SelectSeq(rs, LAMBDA r : ~r.success)

\* what the console shows of a pass before any summary, or once cleared
NoSummary == [ shown |-> FALSE ]

\* the lines `  - ${name}: ${old} -> ${new}` of runSingleUpdate
UpdatedLines(rs, names) ==
    [ i \in DOMAIN Updated(rs) |->
        << names[i], Updated(rs)[i].oldIP, Updated(rs)[i].newIP >> ]

\* the lines `  - ${name}: ${error}`
FailedLines(rs, names) == [ i \in DOMAIN Failed(rs) |-> << names[i], Failed(rs)[i].error >> ]

\* the summary printed after a pass: the counts of updated and of unchanged
\* items and one line per failed item, for records and for policies; detailed
\* (runSingleUpdate) also one line per updated item
Summary(rs, ars, detailed) ==
    [ shown |-> TRUE,
      dnsUpdated |-> Len(Updated(rs)),
      dnsUnchanged |-> Len(Unchanged(rs)),
      dnsFailed |-> Len(Failed(rs)),
      dnsFailedLines |->
          FailedLines(rs, [ i \in DOMAIN Failed(rs) |-> Failed(rs)[i].recordName ]),
      dnsUpdatedLines |->
          IF detailed
          THEN UpdatedLines(rs, [ i \in DOMAIN Updated(rs) |-> Updated(rs)[i].recordName ])
          ELSE << >>,
      accessUpdated |-> Len(Updated(ars)),
      accessUnchanged |-> Len(Unchanged(ars)),
      accessFailed |-> Len(Failed(ars)),
      accessFailedLines |->
          FailedLines(ars, [ i \in DOMAIN Failed(ars) |-> Failed(ars)[i].policyName ]),
      accessUpdatedLines |->
          IF detailed
          THEN UpdatedLines(ars, [ i \in DOMAIN Updated(ars) |-> Updated(ars)[i].policyName ])
          ELSE << >> ]

\* log of a finished pass: whether no result was a failure (clean), whether
\* every selected record and every configured policy was reported as updated
\* or unchanged (settled), and the addresses the record phase and the policy
\* phase resolved
NoPass ==
    [ clean |-> FALSE, settled |-> FALSE, ipv4 |-> Undefined, ipv6 |-> Undefined,
      accIpv4 |-> Undefined ]

NoFailure(rs, ars) ==
    /\ \A k \in DOMAIN rs : rs[k].success
    /\ \A k \in DOMAIN ars : ars[k].success

AllReported(c, rs, ars) ==
    /\ \A i \in DOMAIN c.zones : \A id \in c.zones[i].selectedRecordIds :
         \E k \in DOMAIN rs : rs[k].zoneId = c.zones[i].zoneId /\ rs[k].recordId = id
    /\ ~PoliciesNotConfigured(c) =>
         \A j \in DOMAIN c.accessPolicies :
             \E k \in DOMAIN ars : /\ ars[k].appId = c.accessPolicies[j].appId
                                    /\ ars[k].policyId = c.accessPolicies[j].policyId

PassReport(c, rs, ars, v4, v6, acc4) ==
    [ clean |-> NoFailure(rs, ars),
      settled |-> NoFailure(rs, ars) /\ AllReported(c, rs, ars),
      ipv4 |-> v4, ipv6 |-> v6, accIpv4 |-> acc4 ]

\* -------------------------------------------------------------------- state

VARIABLES
    config,           \* what loadConfig() yields (configuration store)
    records,          \* the provider's DNS records, per zone
    policies,         \* the provider's access policies, per application
    pc,               \* where the running entry function stands
    mode,             \* "menu", "once" (runSingleUpdate) or "loop" (startUpdateLoop)
    cfg,              \* const config of the function that is running
    ipv4, ipv6,       \* updateDNSRecords: const { ipv4, ipv6 }
    zi,               \* updateDNSRecords: index of the zone of the for loop
    selectedRecords,  \* updateDNSRecords: selectedRecords of the zone
    ri,               \* updateDNSRecords: index of the record of the inner loop
    results,          \* updateDNSRecords: results
    accIpv4,          \* updateAccessPolicies: const { ipv4 }
    groups,           \* updateAccessPolicies: Object.entries(appGroups)
    ai,               \* updateAccessPolicies: index of the group of the for loop
    listing,          \* updateAccessPolicies: policies fetched for the group
    pj,               \* updateAccessPolicies: index of the configured policy
    accessResults,    \* updateAccessPolicies: results
    thrown,           \* message of the error the entry function rejected with
    interval,         \* startUpdateLoop: interval (minutes)
    isRunning,        \* startUpdateLoop: isRunning
    rawMode,          \* process.stdin raw mode
    listening,        \* keyListener is registered on process.stdin 'data'
    nextCheck,        \* startUpdateLoop: nextCheck (seconds)
    now,              \* Date.now() (seconds)
    calls,            \* log: resolver and provider calls of the current pass
    observed,         \* log: the selected records as listed in the current pass
    observedPolicies, \* log: the configured policies as found in the current pass
    started,          \* log: passes started
    finished,         \* log: passes whose two phases have returned
    cancelAt,         \* log: time of the first cancellation key, -1 if none
    slowTime,         \* log: seconds spent inside passes
    isTTY,            \* process.stdin.isTTY
    lastStart,        \* log: time the latest pass started
    finishedAt,       \* log: time the latest pass returned
    stdinFlowing,     \* process.stdin is resumed (not paused)
    exitCode,         \* the code process.exit was called with, -1 while running
    menuFrom,         \* log: what led to the main menu being shown
    printed,          \* log: the summary the latest pass printed, kept until the
                      \* console is cleared or the loop's timer next fires
    givenInterval,    \* startUpdateLoop: intervalMinutes, 0 if no argument was passed
    posted,           \* the notifications posted to the webhooks so far
    store,            \* where loadConfig() reads from: the file and the environment
    lastPass          \* log: what the latest finished pass of the loop reported

env == << config, store, records, policies, posted >>
dnsLocals == << ipv4, ipv6, zi, selectedRecords, ri >>
accLocals == << accIpv4, groups, ai, listing, pj >>
loopVars == << interval, givenInterval, isRunning, rawMode, listening, stdinFlowing, nextCheck,
              isTTY >>
clock == << now, slowTime >>
seen == << observed, observedPolicies >>
passLog == << started, finished, lastStart, finishedAt, lastPass >>
proc == << exitCode, menuFrom, printed >>
vars == << config, records, policies, pc, mode, cfg, ipv4, ipv6, zi, selectedRecords, ri,
           results, accIpv4, groups, ai, listing, pj, accessResults, thrown, interval,
           isRunning, rawMode, listening, nextCheck, now, calls, observed,
           observedPolicies, started,
           finished, cancelAt, slowTime, isTTY, lastStart, finishedAt, stdinFlowing,
           exitCode, menuFrom, printed, givenInterval, posted, lastPass, store >>

\* configurations of the one-shot model: many zone lists with no policies,
\* one zone with every policy setting, two zones with two applications, and
\* one with a notification endpoint
Configs ==
    { NoConfig }
    \cup { Cfg(zs, "", FALSE, << >>, 0) : zs \in ZoneLists }
    \cup { Cfg(<< ZoneCfg("z2", { "r4" }) >>, acc, TRUE, pl, 0) :
             acc \in { "", "acc1" }, pl \in PolicyLists }
    \cup { Cfg(<< ZoneCfg("z2", { "r4" }) >>, "acc1", FALSE, << >>, 0) }
    \cup { Cfg(<< ZoneCfg("z1", { "r1", "r3" }), ZoneCfg("z2", { "r4" }) >>, "acc1", TRUE,
                << PolCfg("app1", "p1"), PolCfg("app2", "p4"), PolCfg("app1", "p2") >>, 0) }
    \cup { WithWebhooks(Cfg(<< ZoneCfg("z2", { "r4" }) >>, "acc1", TRUE,
                             << PolCfg("app2", "p4") >>, 0),
                         "https://discord.example/hook", "") }

InitLocals ==
    /\ policies = InitialPolicies
    /\ mode = "menu"
    /\ cfg = NoConfig
    /\ ipv4 = Undefined /\ ipv6 = Undefined
    /\ zi = 0 /\ selectedRecords = << >> /\ ri = 0
    /\ results = << >>
    /\ accIpv4 = Undefined
    /\ groups = << >> /\ ai = 0 /\ listing = << >> /\ pj = 0
    /\ accessResults = << >>
    /\ thrown = ""
    /\ interval = 0 /\ isRunning = FALSE /\ rawMode = FALSE /\ listening = FALSE
    /\ givenInterval = 0
    /\ posted = << >>
    /\ stdinFlowing = FALSE
    /\ exitCode = -1
    /\ menuFrom = "main"
    /\ printed = NoSummary
    /\ nextCheck = 0
    /\ now = 0
    /\ calls = << >> /\ observed = << >> /\ observedPolicies = << >>
    /\ started = 0 /\ finished = 0
    /\ cancelAt = -1
    /\ slowTime = 0
    /\ lastStart = -1 /\ finishedAt = -1
    /\ lastPass = NoPass

\* the store behind a configuration loadConfig() yields in the models of the
\* pass, the loop and the menu: a readable file or none, no environment
\* configuration
SavedStore(c) == [ file |-> IF c.present THEN "valid" ELSE "absent", env |-> "absent" ]

\* the state when the main menu is first shown
InitRest ==
    /\ pc = "menu"
    /\ store = SavedStore(config)
    /\ InitLocals

Init ==
    /\ config \in Configs
    /\ \E c1 \in { IPv4A, IPv4B }, c3 \in { IPv6A, IPv6B } : records = InitialRecords(c1, c3)
    /\ isTTY = TRUE
    /\ InitRest

\* ------------------------------------------------------------- one pass

\* a pass begins at time t: the caller calls updateDNSRecords()
BeginPass(t) ==
    /\ pc' = "dns_begin"
    /\ started' = started + 1
    /\ lastStart' = t
    /\ calls' = << >> /\ observed' = << >> /\ observedPolicies' = << >>
    /\ results' = << >> /\ accessResults' = << >>
    /\ ipv4' = Undefined /\ ipv6' = Undefined /\ zi' = 0
    /\ selectedRecords' = << >> /\ ri' = 0
    /\ accIpv4' = Undefined /\ groups' = << >> /\ ai' = 0
    /\ listing' = << >> /\ pj' = 0

\* where updateDNSRecords goes after zone number k - 1: the next zone or return
AfterZone(c, k) == IF k > Len(c.zones) THEN "acc_begin" ELSE "dns_zone"

\* updateDNSRecords, lines 518-525: loadConfig, the throw, getPublicIPs
DnsBegin ==
    /\ pc = "dns_begin"
    /\ cfg' = config
    /\ IF ~config.present
       THEN /\ thrown' = "No configuration found"
            /\ pc' = "threw"
            /\ UNCHANGED << dnsLocals, calls >>
       ELSE \E l4 \in Lookups4, l6 \in Lookups6 :
              /\ ipv4' = getPublicIPs(l4, l6).ipv4
              /\ ipv6' = getPublicIPs(l4, l6).ipv6
              /\ calls' = Append(calls, [ op |-> "getPublicIPs", fn |-> "dns",
                                         lookup4 |-> l4, lookup6 |-> l6,
                                         ipv4 |-> getPublicIPs(l4, l6).ipv4,
                                         ipv6 |-> getPublicIPs(l4, l6).ipv6 ])
              /\ zi' = 1
              /\ pc' = AfterZone(config, 1)
              /\ UNCHANGED << selectedRecords, ri, thrown >>
    /\ UNCHANGED << env, proc, mode, results, accLocals, accessResults, loopVars, clock,
                    seen, passLog, cancelAt >>

ListCallsAfterResolving(zoneId, ok) ==
    << [ op |-> "getPublicIPs", fn |-> "dns", lookup4 |-> LookupFailed,
         lookup6 |-> LookupFailed, ipv4 |-> Undefined, ipv6 |-> Undefined ],
       [ op |-> "getDNSRecords", fn |-> "dns", zoneId |-> zoneId, type |-> "A", ok |-> ok ],
       [ op |-> "getDNSRecords", fn |-> "dns", zoneId |-> zoneId, type |-> "AAAA",
         ok |-> ok ] >>

\* the two listing calls of a zone; ok is the outcome of their Promise.all
ListCalls(zoneId, ok) ==
    << [ op |-> "getDNSRecords", fn |-> "dns", zoneId |-> zoneId, type |-> "A", ok |-> ok ],
       [ op |-> "getDNSRecords", fn |-> "dns", zoneId |-> zoneId, type |-> "AAAA",
         ok |-> ok ] >>

AfterFailedListingReturn(c, k) == "acc_begin"

AfterFailedListingThrows(c, k) == "threw"

\* the catch of lines 629-634 ends the iteration of the zone whose listing was
\* rejected; the for loop goes on with the next zone
AfterFailedListing(c, k) == AfterZone(c, k)

\* updateDNSRecords, lines 527-543 and 629-634: the two listings of a zone,
\* joined; if either rejects, the zone is skipped
DnsZone ==
    /\ pc = "dns_zone"
    /\ LET zone == cfg.zones[zi]
       IN  \E ok \in BOOLEAN :
             LET sel == IF ok THEN SelectRecords(records, zone) ELSE << >>
             IN  /\ calls' = calls \o ListCalls(zone.zoneId, ok)
                 /\ selectedRecords' = sel
                 /\ observed' = observed \o
                                [ i \in DOMAIN sel |-> [ zoneId |-> zone.zoneId,
                                                         record |-> sel[i] ] ]
                 /\ IF ~ok
                    THEN zi' = zi + 1 /\ ri' = 0 /\ pc' = AfterFailedListing(cfg, zi + 1)
                    ELSE IF sel = << >>
                    THEN zi' = zi + 1 /\ ri' = 0 /\ pc' = AfterZone(cfg, zi + 1)
                    ELSE zi' = zi /\ ri' = 1 /\ pc' = "dns_record"
    /\ UNCHANGED << env, proc, mode, cfg, ipv4, ipv6, results, accLocals, accessResults, thrown,
                    loopVars, clock, passLog, cancelAt, observedPolicies >>

UpdateCallWithDefaults(zone, record, newIP, ok) ==
    [ op |-> "updateDNSRecord", fn |-> "dns", zoneId |-> zone.zoneId,
      recordId |-> record.id, content |-> newIP, name |-> record.name,
      type |-> record.type, proxied |-> FALSE, ttl |-> 1, ok |-> ok ]

\* cfService.updateDNSRecord(zone.zoneId, record.id, newIP, record.name,
\* record.type, record.proxied, record.ttl) and its outcome
UpdateCall(zone, record, newIP, ok) ==
    [ op |-> "updateDNSRecord", fn |-> "dns", zoneId |-> zone.zoneId,
      recordId |-> record.id, content |-> newIP, name |-> record.name,
      type |-> record.type, proxied |-> record.proxied, ttl |-> record.ttl, ok |-> ok ]

\* updateDNSRecords, lines 545-628: one selected record
DnsRecord ==
    /\ pc = "dns_record"
    /\ LET zone == cfg.zones[zi]
           record == selectedRecords[ri]
           newIP == CandidateIP(record, ipv4, ipv6)
       IN  \E ok \in BOOLEAN :
             /\ results' = Append(results, RecordResult(zone, record, ipv4, ipv6, ok))
             /\ IF RecordNeedsUpdate(record, ipv4, ipv6)
                THEN /\ calls' = Append(calls, UpdateCall(zone, record, newIP, ok))
                     /\ records' = IF ok
                                   THEN ApplyRecordUpdate(records, zone.zoneId, record.id,
                                                          newIP, record.name, record.type,
                                                          record.proxied, record.ttl)
                                   ELSE records
                ELSE /\ ok
                     /\ UNCHANGED << calls, records >>
    /\ IF MoreRecords(ri, Len(selectedRecords), ~results'[Len(results')].success)
       THEN ri' = ri + 1 /\ zi' = zi /\ pc' = "dns_record"
       ELSE ri' = 0 /\ zi' = zi + 1 /\ pc' = AfterZone(cfg, zi + 1)
    /\ UNCHANGED << config, store, posted, proc, policies, mode, cfg, ipv4, ipv6, selectedRecords, accLocals,
                    accessResults, thrown, loopVars, clock, seen, passLog, cancelAt >>

NoAddressAtAll(v4, v6) == v4 = Undefined /\ v6 = Undefined

\* const { ipv4 } = await getPublicIPs(); if (!ipv4) return []: the policy
\* phase is skipped for want of an IPv4, whatever the IPv6
NoIPv4ForPolicies(v4, v6) == v4 = Undefined

\* where updateAccessPolicies goes after group number k - 1
AfterApp(gs, k) == IF k > Len(gs) THEN "summary" ELSE "acc_app"

AccBeginWithRecordAddress ==
    /\ pc = "acc_begin"
    /\ cfg' = config
    /\ IF PoliciesNotConfigured(config)
       THEN /\ pc' = "summary"
            /\ UNCHANGED << accLocals, calls >>
       ELSE \E l4 \in Lookups4, l6 \in Lookups6 :
              /\ accIpv4' = ipv4
              /\ calls' = Append(calls, [ op |-> "getPublicIPs", fn |-> "access",
                                         lookup4 |-> l4, lookup6 |-> l6,
                                         ipv4 |-> getPublicIPs(l4, l6).ipv4,
                                         ipv6 |-> getPublicIPs(l4, l6).ipv6 ])
              /\ IF NoIPv4ForPolicies(ipv4, ipv6)
                 THEN /\ pc' = "summary"
                      /\ UNCHANGED << groups, ai >>
                 ELSE /\ groups' = AppGroups(config.accessPolicies)
                      /\ ai' = 1
                      /\ pc' = AfterApp(AppGroups(config.accessPolicies), 1)
              /\ UNCHANGED << listing, pj >>
    /\ UNCHANGED << env, proc, mode, dnsLocals, results, accessResults, thrown, loopVars, clock,
                    seen, passLog, cancelAt >>

\* updateAccessPolicies, lines 644-668: loadConfig, the early return,
\* getPublicIPs, the IPv4 test, the grouping by application
AccBegin ==
    /\ pc = "acc_begin"
    /\ cfg' = config
    /\ IF PoliciesNotConfigured(config)
       THEN /\ pc' = "summary"
            /\ UNCHANGED << accLocals, calls >>
       ELSE \E l4 \in Lookups4, l6 \in Lookups6 :
              /\ accIpv4' = getPublicIPs(l4, l6).ipv4
              /\ calls' = Append(calls, [ op |-> "getPublicIPs", fn |-> "access",
                                         lookup4 |-> l4, lookup6 |-> l6,
                                         ipv4 |-> getPublicIPs(l4, l6).ipv4,
                                         ipv6 |-> getPublicIPs(l4, l6).ipv6 ])
              /\ IF NoIPv4ForPolicies(getPublicIPs(l4, l6).ipv4, getPublicIPs(l4, l6).ipv6)
                 THEN /\ pc' = "summary"
                      /\ UNCHANGED << groups, ai >>
                 ELSE /\ groups' = AppGroups(config.accessPolicies)
                      /\ ai' = 1
                      /\ pc' = AfterApp(AppGroups(config.accessPolicies), 1)
              /\ UNCHANGED << listing, pj >>
    /\ UNCHANGED << env, proc, mode, dnsLocals, results, accessResults, thrown, loopVars, clock,
                    seen, passLog, cancelAt >>

\* updateAccessPolicies, lines 670-680 and 767-772: the listing of one
\* application; if it rejects, the application is skipped
AccApp ==
    /\ pc = "acc_app"
    /\ LET group == groups[ai]
       IN  \E ok \in BOOLEAN :
             /\ calls' = Append(calls, [ op |-> "getAccessPolicies", fn |-> "access",
                                        accountId |-> cfg.accountId,
                                        appId |-> group.appId, ok |-> ok ])
             /\ IF ok
                THEN /\ listing' = getAccessPolicies(policies, group.appId)
                     /\ ai' = ai /\ pj' = 1 /\ pc' = "acc_policy"
                ELSE /\ listing' = << >>
                     /\ ai' = ai + 1 /\ pj' = 0 /\ pc' = AfterApp(groups, ai + 1)
    /\ UNCHANGED << env, proc, mode, cfg, dnsLocals, results, accIpv4, groups, accessResults,
                    thrown, loopVars, clock, seen, passLog, cancelAt >>

PolicyCall(accountId, appId, policy, newIp, ok) ==
    [ op |-> "updateAccessPolicy", fn |-> "access", accountId |-> accountId,
      appId |-> appId, policyId |-> policy.id, newIp |-> newIp, policy |-> policy,
      endpoint |-> Endpoint(policy), include |-> UpdatedIncludes(policy, newIp),
      decision |-> policy.decision, exclude |-> policy.exclude,
      require |-> policy.require, ok |-> ok ]

\* updateAccessPolicies, lines 682-766: one configured policy of the group
AccPolicy ==
    /\ pc = "acc_policy"
    /\ LET group == groups[ai]
           configPolicy == group.policies[pj]
           k == FindPolicy(listing, configPolicy.policyId)
       IN  \E ok \in BOOLEAN :
             /\ accessResults' =
                  Append(accessResults, PolicyResult(group, listing, configPolicy, accIpv4, ok))
             /\ observedPolicies' =
                  IF k = 0 THEN observedPolicies
                  ELSE Append(observedPolicies, [ appId |-> group.appId, policy |-> listing[k] ])
             /\ IF PolicyNeedsUpdate(listing, configPolicy, accIpv4)
                THEN LET newIp == NewPolicyIp(RawPolicyIp(listing[k]), accIpv4)
                     IN  /\ calls' = Append(calls, PolicyCall(cfg.accountId, group.appId,
                                                             listing[k], newIp, ok))
                         /\ policies' =
                              IF ok
                              THEN ApplyPolicyUpdate(policies, group.appId, listing[k].id,
                                                     UpdatedIncludes(listing[k], newIp))
                              ELSE policies
                ELSE /\ ~ok
                     /\ UNCHANGED << calls, policies >>
    /\ IF pj < Len(groups[ai].policies)
       THEN pj' = pj + 1 /\ ai' = ai /\ pc' = "acc_policy"
       ELSE pj' = 0 /\ ai' = ai + 1 /\ pc' = AfterApp(groups, ai + 1)
    /\ UNCHANGED << config, store, posted, proc, records, mode, cfg, dnsLocals, results, accIpv4, groups,
                    listing, thrown, loopVars, clock, observed, passLog, cancelAt >>

PassNext == DnsBegin \/ DnsZone \/ DnsRecord \/ AccBegin \/ AccApp \/ AccPolicy

\* ------------------------------------------------------- runSingleUpdate

runSingleUpdateInRawMode ==
    /\ pc = "menu"
    /\ mode' = "once"
    /\ BeginPass(now)
    /\ rawMode' = TRUE /\ stdinFlowing' = TRUE
    /\ UNCHANGED << env, proc, cfg, thrown, interval, givenInterval, isRunning, listening,
                    nextCheck, isTTY, clock, finished, finishedAt,
                    lastPass, cancelAt >>

\* runSingleUpdate is chosen in the menu: it calls updateDNSRecords()
runSingleUpdate ==
    /\ pc = "menu"
    /\ mode' = "once"
    /\ BeginPass(now)
    /\ UNCHANGED << env, proc, cfg, thrown, loopVars, clock, finished, finishedAt,
                    lastPass, cancelAt >>

\* runSingleUpdate, lines 939-991: both calls have returned, the summary
SingleSummary ==
    /\ pc = "summary" /\ mode = "once"
    /\ pc' = "done"
    /\ finished' = finished + 1
    /\ finishedAt' = now
    /\ printed' = Summary(results, accessResults, TRUE)
    /\ UNCHANGED << env, exitCode, menuFrom, mode, cfg, dnsLocals, results, accLocals,
                    accessResults, thrown, loopVars, clock, calls, seen, started, lastStart,
                    lastPass, cancelAt >>

Next == runSingleUpdate \/ PassNext \/ SingleSummary

Spec == Init /\ [][Next]_vars

\* every awaited resolver or provider call settles and the continuation then
\* runs: the steps of a pass and the summary are taken when they can be
FairSpec == Spec /\ WF_vars(PassNext) /\ WF_vars(SingleSummary)

\* ------------------------------------------------------- startUpdateLoop

\* the control points inside a pass
InPass(p) == p \in { "dns_begin", "dns_zone", "dns_record", "acc_begin", "acc_app",
                     "acc_policy" }

EffectiveIntervalConfigFirst(intervalMinutes, c) ==
    IF c.updateInterval # 0 THEN c.updateInterval
    ELSE IF intervalMinutes # 0 THEN intervalMinutes
    ELSE DefaultInterval

\* const interval = intervalMinutes || config.updateInterval || 5
EffectiveInterval(intervalMinutes, c) ==
    IF intervalMinutes # 0 THEN intervalMinutes
    ELSE IF c.updateInterval # 0 THEN c.updateInterval
    ELSE DefaultInterval

IntervalSecondsHalved(i) == (i * SecondsPerMinute) \div 2

\* const intervalMs = interval * 60 * 1000, in seconds
IntervalSeconds(i) == i * SecondsPerMinute

NextCheckFromDeadline(t, deadline, i) == deadline + IntervalSeconds(i)

\* nextCheck = Date.now() + intervalMs, after the summary of a pass
NextCheckAfterPass(t, deadline, i) == t + IntervalSeconds(i)

ShouldRunPassIgnoringStop(t, deadline, running) == t >= deadline

\* Date.now() >= nextCheck && isRunning
ShouldRunPass(t, deadline, running) == t >= deadline /\ running

TimerFiresDuringPass(p) == p = "sleep" \/ InPass(p)

\* the loop body is reached only through `await` of the one-second timer, which
\* is started only after the previous body has returned
TimerFires(p) == p = "sleep"

SleepSecondsWholeInterval(i) == IntervalSeconds(i)

\* await new Promise((resolve) => setTimeout(resolve, 1000)): the time between
\* two samplings of isRunning, whatever the interval
SleepSeconds(i) == PollSeconds

\* the values the interval argument takes (0: no argument)
IntervalArgs == { 0, 1 }

LoopHeadWithoutCleanup(running) ==
    /\ pc' = IF running THEN "sleep" ELSE "stopped"
    /\ UNCHANGED << rawMode, listening, stdinFlowing >>

\* while (isRunning) at the loop head, and the cleanup after the loop
LoopHead(running) ==
    IF running
    THEN pc' = "sleep" /\ UNCHANGED << rawMode, listening, stdinFlowing >>
    ELSE /\ pc' = "stopped"
         /\ IF isTTY
            THEN listening' = FALSE /\ rawMode' = FALSE /\ stdinFlowing' = FALSE
            ELSE UNCHANGED << rawMode, listening, stdinFlowing >>

startUpdateLoopWithoutInitialPass ==
    /\ pc = "menu" /\ config.present
    /\ \E intervalMinutes \in IntervalArgs :
         /\ givenInterval' = intervalMinutes
         /\ interval' = EffectiveInterval(intervalMinutes, config)
         /\ nextCheck' = now + IntervalSeconds(EffectiveInterval(intervalMinutes, config))
    /\ mode' = "loop" /\ cfg' = config /\ isRunning' = TRUE
    /\ rawMode' = isTTY /\ listening' = isTTY
    /\ stdinFlowing' = (isTTY \/ stdinFlowing)
    /\ pc' = "sleep"
    /\ UNCHANGED << env, proc, dnsLocals, results, accLocals, accessResults, thrown, isTTY,
                    clock, calls, seen, passLog, cancelAt >>

startUpdateLoopListensFirst ==
    /\ pc = "menu"
    /\ cfg' = config
    /\ mode' = "loop"
    /\ rawMode' = isTTY /\ listening' = isTTY /\ stdinFlowing' = (isTTY \/ stdinFlowing)
    /\ IF ~config.present
       THEN /\ thrown' = "No configuration found"
            /\ pc' = "threw"
            /\ UNCHANGED << dnsLocals, results, accLocals, accessResults, interval,
                            givenInterval, isRunning, calls, seen, started, lastStart >>
       ELSE /\ \E intervalMinutes \in IntervalArgs :
                 /\ givenInterval' = intervalMinutes
                 /\ interval' = EffectiveInterval(intervalMinutes, config)
            /\ isRunning' = TRUE
            /\ BeginPass(now)
            /\ UNCHANGED thrown
    /\ UNCHANGED << env, proc, nextCheck, isTTY, clock, finished, finishedAt,
                    lastPass, cancelAt >>

\* startUpdateLoop, lines 781-816: loadConfig, the throw, the interval, raw
\* mode and the key listener on a TTY, then the initial updateDNSRecords()
startUpdateLoop ==
    /\ pc = "menu"
    /\ cfg' = config
    /\ IF ~config.present
       THEN /\ thrown' = "No configuration found"
            /\ pc' = "threw"
            /\ mode' = "loop"
            /\ UNCHANGED << dnsLocals, results, accLocals, accessResults, interval,
                            givenInterval, isRunning, rawMode, listening, stdinFlowing, calls,
                            seen, started, lastStart >>
       ELSE /\ \E intervalMinutes \in IntervalArgs :
                 /\ givenInterval' = intervalMinutes
                 /\ interval' = EffectiveInterval(intervalMinutes, config)
            /\ mode' = "loop"
            /\ isRunning' = TRUE
            /\ rawMode' = isTTY
            /\ stdinFlowing' = (isTTY \/ stdinFlowing)
            /\ listening' = isTTY
            /\ BeginPass(now)
            /\ UNCHANGED thrown
    /\ UNCHANGED << env, proc, nextCheck, isTTY, clock, finished, finishedAt,
                    lastPass, cancelAt >>

IsStopKeyAnywhere(str) == str \in { "q", "Q", "ctrl-c", "qq" }

\* str === 'q' || str === 'Q' || str === '\u0003' || str === '\x71' || str === '\x51'
\* ('\x71' is 'q', '\x51' is 'Q')
IsStopKey(str) == str \in { "q", "Q", "ctrl-c" }

\* the input chunks tried: single keys, and two keys arriving as one chunk
Chunks == { "q", "Q", "ctrl-c", "x", "qq" }

keyListenerAlwaysInstalled(str) ==
    /\ mode = "loop" /\ pc \notin { "stopped", "threw" }
    /\ IF IsStopKey(str)
       THEN /\ isRunning' = FALSE
            /\ cancelAt' = IF cancelAt = -1 THEN now ELSE cancelAt
       ELSE UNCHANGED << isRunning, cancelAt >>
    /\ UNCHANGED << env, proc, pc, mode, cfg, dnsLocals, results, accLocals, accessResults,
                    thrown, interval, givenInterval, rawMode, listening, stdinFlowing,
                    nextCheck, isTTY, clock, calls,
                    seen, passLog >>

\* keyListener, lines 797-805, called with the chunk str: q, Q or Ctrl+C
\* clears isRunning
keyListener(str) ==
    /\ listening
    /\ mode = "loop" /\ pc \notin { "stopped", "threw" }
    /\ IF IsStopKey(str)
       THEN /\ isRunning' = FALSE
            /\ cancelAt' = IF cancelAt = -1 THEN now ELSE cancelAt
       ELSE UNCHANGED << isRunning, cancelAt >>
    /\ UNCHANGED << env, proc, pc, mode, cfg, dnsLocals, results, accLocals, accessResults,
                    thrown, interval, givenInterval, rawMode, listening, stdinFlowing,
                    nextCheck, isTTY, clock, calls,
                    seen, passLog >>

KeyPressStopsAtOnce ==
    /\ listening
    /\ mode = "loop" /\ pc \notin { "stopped", "threw" }
    /\ \E str \in Chunks :
         IF IsStopKey(str)
         THEN /\ isRunning' = FALSE
              /\ cancelAt' = IF cancelAt = -1 THEN now ELSE cancelAt
              /\ pc' = "stopped"
              /\ listening' = FALSE /\ rawMode' = FALSE /\ stdinFlowing' = FALSE
         ELSE UNCHANGED << isRunning, cancelAt, pc, listening, rawMode, stdinFlowing >>
    /\ UNCHANGED << env, proc, mode, cfg, dnsLocals, results, accLocals, accessResults,
                    thrown, interval, givenInterval, nextCheck, isTTY, clock, calls,
                    seen, passLog >>

\* a 'data' event of stdin is delivered to keyListener
KeyPress == \E str \in Chunks : keyListener(str)

\* a resolver or provider call of the pass in flight takes SlowCall seconds
SlowProviderCall ==
    /\ mode = "loop" /\ InPass(pc)
    /\ now + SlowCall <= MaxTime
    /\ now' = now + SlowCall
    /\ slowTime' = slowTime + SlowCall
    /\ UNCHANGED << env, proc, pc, mode, cfg, dnsLocals, results, accLocals, accessResults,
                    thrown, loopVars, calls, seen, passLog, cancelAt >>

\* startUpdateLoop, lines 819-860 and 873-916: both calls of the pass have
\* returned; the summary, nextCheck = Date.now() + intervalMs, the loop head;
\* report is what the log of finished passes then holds
LoopSummaryLogging(report) ==
    /\ pc = "summary" /\ mode = "loop"
    /\ nextCheck' = NextCheckAfterPass(now, nextCheck, interval)
    /\ finished' = finished + 1
    /\ finishedAt' = now
    /\ LoopHead(isRunning)
    /\ calls' = << >> /\ observed' = << >> /\ observedPolicies' = << >>
    /\ results' = << >> /\ accessResults' = << >>
    /\ ipv4' = Undefined /\ ipv6' = Undefined /\ zi' = 0
    /\ selectedRecords' = << >> /\ ri' = 0
    /\ accIpv4' = Undefined /\ groups' = << >> /\ ai' = 0
    /\ listing' = << >> /\ pj' = 0
    /\ printed' = Summary(results, accessResults, FALSE)
    /\ lastPass' = report
    /\ UNCHANGED << env, exitCode, menuFrom, mode, cfg, thrown, interval, givenInterval,
                    isRunning, isTTY, clock, started, lastStart, cancelAt >>

\* the return of a pass of the loop, the log of finished passes not kept
LoopSummary == LoopSummaryLogging(lastPass)

\* the return of a pass of the loop, logged
LoopSummaryLogged ==
    LoopSummaryLogging(PassReport(cfg, results, accessResults, ipv4, ipv6, accIpv4))

\* startUpdateLoop, lines 863-871: the one-second timer resolves; a pass is
\* started if the deadline has passed and the loop is still running
LoopWake ==
    /\ mode = "loop" /\ TimerFires(pc)
    /\ now + SleepSeconds(interval) <= MaxTime
    /\ now' = now + SleepSeconds(interval)
    /\ IF ShouldRunPass(now + SleepSeconds(interval), nextCheck, isRunning)
       THEN /\ BeginPass(now + SleepSeconds(interval))
            /\ UNCHANGED << rawMode, listening, stdinFlowing >>
       ELSE /\ LoopHead(isRunning)
            /\ UNCHANGED << dnsLocals, results, accLocals, accessResults, calls, seen,
                            started, lastStart >>
    /\ printed' = NoSummary
    /\ UNCHANGED << env, exitCode, menuFrom, mode, cfg, thrown, interval, givenInterval,
                    isRunning, nextCheck, isTTY, slowTime, finished, finishedAt,
                    lastPass, cancelAt >>

\* the update interval another writer of the configuration file stores
EditedInterval == 2

\* the configuration file is rewritten with another updateInterval while the
\* loop runs (another instance's menu, an editor): loadConfig reads the file
\* anew on every call. No step of a pass reads updateInterval, so a rewrite
\* during a pass acts like one during the wait that follows: the rewrite is
\* taken to fall into a wait
ConfigEdited ==
    /\ mode = "loop" /\ pc = "sleep"
    /\ config.present /\ config.updateInterval # EditedInterval
    /\ config' = [ config EXCEPT !.updateInterval = EditedInterval ]
    /\ UNCHANGED << store, records, policies, posted, proc, pc, mode, cfg, dnsLocals, results, accLocals,
                    accessResults, thrown, loopVars, clock, calls, seen, passLog, cancelAt >>

\* configurations of the loop model: one zone with one record, one policy
LoopConfigs ==
    { NoConfig }
    \cup { Cfg(<< ZoneCfg("z2", { "r4" }) >>, "acc1", TRUE, << PolCfg("app2", "p4") >>, ui) :
             ui \in { 0, 1, 2 } }

LoopInit ==
    /\ config \in LoopConfigs
    /\ records = InitialRecords(IPv4A, IPv6A)
    /\ isTTY \in BOOLEAN
    /\ InitRest

LoopNext ==
    \/ startUpdateLoop \/ PassNext \/ LoopSummary \/ LoopWake \/ KeyPress
    \/ SlowProviderCall \/ ConfigEdited

LoopSpec == LoopInit /\ [][LoopNext]_vars

\* ------------------------------------------------------------ showMainMenu

\* showMainMenu is called again, after console.clear(): the locals of the
\* function that returned are gone; the logs and the clock, which measure one
\* run of an entry function, start afresh
ShowMenu(from) ==
    /\ pc' = "menu" /\ mode' = "menu"
    /\ menuFrom' = from
    /\ printed' = NoSummary
    /\ cfg' = NoConfig
    /\ ipv4' = Undefined /\ ipv6' = Undefined /\ zi' = 0
    /\ selectedRecords' = << >> /\ ri' = 0
    /\ results' = << >>
    /\ accIpv4' = Undefined /\ groups' = << >> /\ ai' = 0
    /\ listing' = << >> /\ pj' = 0
    /\ accessResults' = << >>
    /\ interval' = 0 /\ givenInterval' = 0 /\ isRunning' = FALSE /\ nextCheck' = 0
    /\ now' = 0 /\ slowTime' = 0
    /\ calls' = << >> /\ observed' = << >> /\ observedPolicies' = << >>
    /\ started' = 0 /\ finished' = 0 /\ lastStart' = -1 /\ finishedAt' = -1
    /\ lastPass' = NoPass
    /\ cancelAt' = -1

\* what every menu action leaves alone besides the input state and the store
menuKeeps == << cfg, dnsLocals, results, accLocals, accessResults, interval, givenInterval,
                isRunning, nextCheck, isTTY, clock, calls, seen, passLog, cancelAt, printed >>

\* case 'auto', lines 393-395: the menu calls startUpdateLoop() without an
\* argument
MenuAuto == startUpdateLoop /\ givenInterval' = 0

\* case 'auto', lines 393-401: startUpdateLoop() has returned; the
\* configuration and the menu are shown again
LoopReturns ==
    /\ mode = "loop" /\ pc = "stopped"
    /\ ShowMenu("auto")
    /\ UNCHANGED << env, thrown, rawMode, listening, stdinFlowing, isTTY, exitCode >>

\* case 'once', lines 402-408: runSingleUpdate() has returned; raw mode is set
\* and stdin resumed to wait for any key
SingleReturns ==
    /\ mode = "once" /\ pc = "done"
    /\ pc' = "anykey"
    /\ rawMode' = TRUE /\ stdinFlowing' = TRUE
    /\ UNCHANGED << env, mode, thrown, listening, proc, menuKeeps >>

\* case 'view', lines 328-334, with showRecordsList, lines 220-281: nothing to
\* show without a configuration; else the records are listed (listing errors
\* are caught) and any key is waited for
MenuView ==
    /\ pc = "menu"
    /\ IF ~config.present
       THEN /\ menuFrom' = "view"
            /\ UNCHANGED << pc, mode, rawMode, stdinFlowing >>
       ELSE /\ pc' = "anykey" /\ mode' = "view"
            /\ rawMode' = TRUE /\ stdinFlowing' = TRUE
            /\ UNCHANGED menuFrom
    /\ UNCHANGED << env, thrown, listening, exitCode, menuKeeps >>

\* the once('data') handler of lines 272-280 and 406-414: raw mode released,
\* stdin paused, then the menu
AnyKey ==
    /\ pc = "anykey"
    /\ rawMode' = FALSE /\ stdinFlowing' = FALSE
    /\ ShowMenu(mode)
    /\ UNCHANGED << env, thrown, listening, isTTY, exitCode >>

\* the message of an error thrown inside runSetup (a rejected provider call, no
\* zones, an empty token)
SetupError == "setup error"

\* what runSetup saves: { apiKey, zones, updateInterval }, no accountId and no
\* accessPolicies
SavedBySetup(zones, updateInterval) == Cfg(zones, "", FALSE, << >>, updateInterval)

\* the intervals entered at the prompts (validated: a number >= 1)
IntervalInputs == { 1, 2 }

\* case 'reconfigure', lines 335-378, with runSetup, lines 120-215: the setup
\* rethrows its errors; else it saves a new configuration or leaves the store
\* alone, and the menu is shown again
MenuReconfigure ==
    /\ pc = "menu"
    /\ \/ /\ thrown' = SetupError
          /\ pc' = "threw"
          /\ UNCHANGED << config, store, menuFrom >>
       \/ /\ \E n \in IntervalInputs :
               config' = SavedBySetup(<< ZoneCfg("z2", { "r4" }) >>, n)
          /\ store' = [ store EXCEPT !.file = "valid" ]
          /\ menuFrom' = "reconfigure"
          /\ UNCHANGED << pc, thrown >>
       \/ /\ menuFrom' = "reconfigure"
          /\ UNCHANGED << config, store, pc, thrown >>
    /\ UNCHANGED << records, policies, posted, mode, rawMode, listening, stdinFlowing, exitCode,
                    menuKeeps >>

\* case 'interval', lines 420-448: the new interval is saved with the
\* configuration, if there is one
MenuChangeInterval ==
    /\ pc = "menu"
    /\ IF ~config.present
       THEN UNCHANGED << config, store >>
       ELSE /\ \E n \in IntervalInputs : config' = [ config EXCEPT !.updateInterval = n ]
            /\ store' = [ store EXCEPT !.file = "valid" ]
    /\ menuFrom' = "interval"
    /\ UNCHANGED << records, policies, posted, pc, mode, thrown, rawMode, listening, stdinFlowing,
                    exitCode, menuKeeps >>

\* case 'delete', lines 458-471: if confirmed, deleteConfig and process.exit(0)
MenuDelete ==
    /\ pc = "menu"
    /\ \E confirmDelete \in BOOLEAN :
         IF confirmDelete
         THEN /\ config' = NoConfig /\ store' = [ store EXCEPT !.file = "absent" ]
              /\ exitCode' = 0 /\ pc' = "exited"
         ELSE UNCHANGED << config, store, exitCode, pc >>
    /\ menuFrom' = "delete"
    /\ UNCHANGED << records, policies, posted, mode, thrown, rawMode, listening, stdinFlowing,
                    menuKeeps >>

\* case 'exit', lines 472-476: process.exit(0)
MenuExit ==
    /\ pc = "menu"
    /\ exitCode' = 0 /\ pc' = "exited"
    /\ UNCHANGED << env, mode, thrown, rawMode, listening, stdinFlowing, menuFrom,
                    menuKeeps >>

\* main, index.ts lines 68-73: an error that reaches main ends the process with
\* code 1
MainCatch ==
    /\ pc = "threw"
    /\ exitCode' = 1 /\ pc' = "exited"
    /\ UNCHANGED << env, mode, thrown, rawMode, listening, stdinFlowing, menuFrom,
                    menuKeeps >>

\* configurations of the menu model
MenuConfigs ==
    { NoConfig,
      Cfg(<< ZoneCfg("z2", { "r4" }) >>, "acc1", TRUE, << PolCfg("app2", "p4") >>, 1) }

MenuInit ==
    /\ config \in MenuConfigs
    /\ records = InitialRecords(IPv4A, IPv6A)
    /\ isTTY = TRUE
    /\ InitRest

MenuNext ==
    \/ MenuView \/ MenuReconfigure \/ MenuChangeInterval \/ MenuDelete \/ MenuExit
    \/ MenuAuto \/ runSingleUpdate
    \/ PassNext \/ LoopSummary \/ LoopWake \/ KeyPress \/ SingleSummary
    \/ LoopReturns \/ SingleReturns \/ AnyKey \/ MainCatch

MenuSpec == MenuInit /\ [][MenuNext]_vars

\* ------------------------------------------------------- successive passes

\* configurations of the model of successive passes: an AAAA record with a
\* policy of several include entries, or an A record with a policy of one;
\* one minute between passes
ConvergeConfigs ==
    { Cfg(<< ZoneCfg("z1", { "r3" }) >>, "acc1", TRUE, << PolCfg("app1", "p1") >>, 1),
      Cfg(<< ZoneCfg("z2", { "r4" }) >>, "acc1", TRUE, << PolCfg("app2", "p4") >>, 1) }

\* a headless run of the loop
ConvergeInit ==
    /\ config \in ConvergeConfigs
    /\ records = InitialRecords(IPv4A, IPv6A)
    /\ isTTY = FALSE
    /\ InitRest

ConvergeNext == MenuAuto \/ PassNext \/ LoopSummaryLogged \/ LoopWake

\* the loop over several passes, with the report of each finished pass logged
ConvergeSpec == ConvergeInit /\ [][ConvergeNext]_vars

\* ------------------------------------------- the configuration going away

\* the configuration file is deleted while the loop waits between passes
\* (another instance's "delete" menu entry, a cleaned volume) and no
\* environment configuration stands in: loadConfig then returns null
ConfigRemoved ==
    /\ mode = "loop" /\ pc = "sleep"
    /\ config.present
    /\ config' = NoConfig
    /\ store' = [ store EXCEPT !.file = "absent" ]
    /\ UNCHANGED << records, policies, posted, proc, pc, mode, cfg, dnsLocals, results, accLocals,
                    accessResults, thrown, loopVars, clock, calls, seen, passLog, cancelAt >>

\* one configuration, on a terminal
RemovalInit ==
    /\ config = Cfg(<< ZoneCfg("z2", { "r4" }) >>, "acc1", TRUE, << PolCfg("app2", "p4") >>, 1)
    /\ records = InitialRecords(IPv4A, IPv6A)
    /\ isTTY = TRUE
    /\ InitRest

RemovalNext ==
    \/ MenuAuto \/ PassNext \/ LoopSummary \/ LoopWake \/ KeyPress \/ ConfigRemoved

\* the loop with a configuration that may disappear between passes
RemovalSpec == RemovalInit /\ [][RemovalNext]_vars

\* ------------------------------------------------- with and without a terminal

\* one configuration, stdin a TTY or not (a headless run, a container)
TerminalInit ==
    /\ config = Cfg(<< ZoneCfg("z2", { "r4" }) >>, "acc1", TRUE, << PolCfg("app2", "p4") >>, 1)
    /\ records = InitialRecords(IPv4A, IPv6A)
    /\ isTTY \in BOOLEAN
    /\ InitRest

TerminalNext == MenuAuto \/ PassNext \/ LoopSummary \/ LoopWake \/ KeyPress

\* the loop with every awaited call settling and the one-second timer firing:
\* the steps of a pass, the summary and the wake-up are taken when they can be
TerminalSpec ==
    /\ TerminalInit /\ [][TerminalNext]_vars
    /\ WF_vars(PassNext) /\ WF_vars(LoopSummary) /\ WF_vars(LoopWake)

\* ------------------------------------------- the environment configuration

\* the decimal digits, in order of value
DigitChars == << "0", "1", "2", "3", "4", "5", "6", "7", "8", "9" >>

IsDigit(ch) == \E i \in DOMAIN DigitChars : DigitChars[i] = ch

DigitValue(ch) == (CHOOSE i \in DOMAIN DigitChars : DigitChars[i] = ch) - 1

RECURSIVE DigitsValue(_, _)
\* the value of the longest prefix of digits of chars, after the value acc
DigitsValue(chars, acc) ==
    IF chars = << >> \/ ~IsDigit(Head(chars)) THEN acc
    ELSE DigitsValue(Tail(chars), acc * Len(DigitChars) + DigitValue(Head(chars)))

\* Number.parseInt(raw, 10) of a string of characters: an optional sign, then
\* the longest prefix of digits; NaN if there is none. NaN is falsy like 0 and
\* undefined, and the interval is read only through ||: it is 0 here
parseInt(raw) ==
    LET signed == raw # << >> /\ Head(raw) \in { "-", "+" }
        body == IF signed THEN Tail(raw) ELSE raw
    IN  IF body = << >> \/ ~IsDigit(Head(body)) THEN 0
        ELSE IF signed /\ Head(raw) = "-" THEN 0 - DigitsValue(body, 0)
        ELSE DigitsValue(body, 0)

\* intervalRaw ? Number.parseInt(intervalRaw, 10) : undefined
EnvUpdateInterval(intervalRaw) == IF intervalRaw = << >> THEN 0 ELSE parseInt(intervalRaw)

\* values of CF_UPDATE_INTERVAL: unset, "1", "2", "0", "-1", "x", "1.5"
EnvIntervals ==
    { << >>, << "1" >>, << "2" >>, << "0" >>, << "-", "1" >>, << "x" >>,
      << "1", ".", "5" >> }

\* loadEnvConfig with one zone, one policy and the interval variable given
EnvConfig(intervalRaw) ==
    Cfg(<< ZoneCfg("z2", { "r4" }) >>, "acc1", TRUE, << PolCfg("app2", "p4") >>,
        EnvUpdateInterval(intervalRaw))

\* no configuration file: loadConfig yields the environment configuration
EnvInit ==
    /\ config \in { EnvConfig(raw) : raw \in EnvIntervals }
    /\ records = InitialRecords(IPv4A, IPv6A)
    /\ isTTY = FALSE
    /\ InitRest

EnvNext == MenuAuto \/ PassNext \/ LoopSummary \/ LoopWake

\* the loop of a headless run configured through the environment
EnvSpec == EnvInit /\ [][EnvNext]_vars

\* ----------------------------------------------------- main and the store

\* the configuration the file holds when it can be read
SavedConfig ==
    Cfg(<< ZoneCfg("z2", { "r4" }) >>, "acc1", TRUE, << PolCfg("app2", "p4") >>, 1)

\* loadEnvConfig: null unless the token and the zones are set
loadEnvConfig(e) == IF e = "valid" THEN EnvConfig(<< >>) ELSE NoConfig

\* loadConfig: without a file the environment configuration; else the file's
\* content, or null if reading, decrypting or parsing it throws
loadConfig(st) ==
    IF st.file = "absent" THEN loadEnvConfig(st.env)
    ELSE IF st.file = "valid" THEN SavedConfig
    ELSE NoConfig

\* hasConfig: existsSync(CONFIG_FILE) || loadEnvConfig() !== null
hasConfig(st) == st.file # "absent" \/ loadEnvConfig(st.env).present

\* the file absent, readable, or present but unreadable or corrupt; the
\* environment configuration absent or valid
Stores == [ file : { "absent", "valid", "corrupt" }, env : { "absent", "valid" } ]

\* main, index.ts lines 40-67: with hasConfig() the announcement
\* 'Configuration found' and the menu; else runSetup, which saves a
\* configuration, or saves none, or throws, and then hasConfig() again
main ==
    /\ pc = "main"
    /\ IF hasConfig(store)
       THEN /\ menuFrom' = "found"
            /\ pc' = "menu"
            /\ UNCHANGED << config, store, thrown, exitCode >>
       ELSE \/ /\ \E n \in IntervalInputs :
                    config' = SavedBySetup(<< ZoneCfg("z2", { "r4" }) >>, n)
               /\ store' = [ store EXCEPT !.file = "valid" ]
               /\ menuFrom' = "found"
               /\ pc' = "menu"
               /\ UNCHANGED << thrown, exitCode >>
            \/ /\ exitCode' = 0 /\ pc' = "exited"
               /\ UNCHANGED << config, store, thrown, menuFrom >>
            \/ /\ thrown' = SetupError
               /\ pc' = "threw"
               /\ UNCHANGED << config, store, exitCode, menuFrom >>
    /\ UNCHANGED << records, policies, posted, mode, rawMode, listening, stdinFlowing,
                    menuKeeps >>

\* the start of the process: any store, loadConfig() yielding what it holds
MainInit ==
    /\ store \in Stores
    /\ config = loadConfig(store)
    /\ records = InitialRecords(IPv4A, IPv6A)
    /\ isTTY = TRUE
    /\ pc = "main"
    /\ InitLocals

MainNext ==
    \/ main \/ MenuAuto \/ PassNext \/ LoopSummary \/ LoopWake \/ KeyPress
    \/ LoopReturns \/ MainCatch

\* the process from main to the monitoring loop and back to the menu
MainSpec == MainInit /\ [][MainNext]_vars

\* ------------------------------------------------------------------ claims

\* updateDNSRecords has returned to its caller
DnsReturned == pc \in { "acc_begin", "acc_app", "acc_policy", "summary", "done" }

\* the resolved address of a record type's family in the current pass
ResolvedFor(type) == IF type = "A" THEN ipv4 ELSE ipv6

\* the positions of the update calls and of the results of one record
UpdateCallsOf(zoneId, recordId) ==
    { k \in DOMAIN calls : /\ calls[k].op = "updateDNSRecord"
                           /\ calls[k].zoneId = zoneId
                           /\ calls[k].recordId = recordId }
ResultsOf(zoneId, recordId) ==
    { k \in DOMAIN results : results[k].zoneId = zoneId /\ results[k].recordId = recordId }

RecordUpdateCalls == SelectSeq(calls, LAMBDA c : c.op = "updateDNSRecord")

\* C1: idempotence. Once updateDNSRecords has returned, every selected record
\* that was listed with a content equal to the resolved IP of its family has a
\* result with success = true and oldIP = newIP = that content, and no
\* updateDNSRecord call was issued for it.
C1_Idempotence ==
    DnsReturned =>
        \A i \in DOMAIN observed :
            LET o == observed[i]
            IN  (ResolvedFor(o.record.type) # Undefined
                 /\ o.record.content = ResolvedFor(o.record.type))
                => /\ \E k \in ResultsOf(o.zoneId, o.record.id) :
                        /\ results[k].success
                        /\ results[k].oldIP = o.record.content
                        /\ results[k].newIP = o.record.content
                   /\ \A k \in ResultsOf(o.zoneId, o.record.id) : results[k].success
                   /\ UpdateCallsOf(o.zoneId, o.record.id) = { }

\* a finished one-shot pass that listed an A and an AAAA record already holding
\* the resolved addresses, and updated another record
C1_Witness ==
    /\ pc = "done"
    /\ \E i, j \in DOMAIN observed :
         /\ observed[i].record.type = "A" /\ observed[i].record.content = ipv4
         /\ observed[j].record.type = "AAAA" /\ observed[j].record.content = ipv6
    /\ Len(RecordUpdateCalls) > 0

\* the selected records of the pass that, by the claim, need an update call
ObservedDiffering ==
    SelectSeq(observed, LAMBDA o : /\ ResolvedFor(o.record.type) # Undefined
                                   /\ o.record.content # ResolvedFor(o.record.type))

\* the scenario of the example: one zone, two selected A records holding
\* 1.1.1.1 and 2.2.2.2, ipv4 resolved to 2.2.2.2, the provider accepting
C2_Example ==
    /\ cfg.present
    /\ cfg.zones = << ZoneCfg("z1", { "r1", "r2" }) >>
    /\ Len(observed) = 2
    /\ observed[1].record.content = IPv4A /\ observed[2].record.content = IPv4B
    /\ ipv4 = IPv4B
    /\ \A k \in DOMAIN calls : calls[k].op = "updateDNSRecord" => calls[k].ok

\* C2: once updateDNSRecords has returned, the number of updateDNSRecord calls
\* of the pass equals the number of selected records whose family was resolved
\* and whose listed content differs from the resolved IP; in the example
\* scenario that is one call, one unchanged and one updated result (old
\* 1.1.1.1, new 2.2.2.2).
C2_UpdateCallCount ==
    DnsReturned =>
        /\ Len(RecordUpdateCalls) = Len(ObservedDiffering)
        /\ C2_Example =>
             /\ Len(RecordUpdateCalls) = 1
             /\ Len(results) = 2
             /\ Len(Unchanged(results)) = 1
             /\ Len(Updated(results)) = 1
             /\ Updated(results)[1].oldIP = IPv4A
             /\ Updated(results)[1].newIP = IPv4B
             /\ Unchanged(results)[1].oldIP = IPv4B

C2_Witness == pc = "done" /\ C2_Example /\ Len(RecordUpdateCalls) = 1

\* the outcome the claim describes for a record whose family is resolved:
\* unchanged if the content matches, else one update call with the resolved
\* address and a result that follows the call's outcome
NormallyReconciled(o) ==
    LET target == ResolvedFor(o.record.type)
        rs == ResultsOf(o.zoneId, o.record.id)
        cs == UpdateCallsOf(o.zoneId, o.record.id)
    IN  /\ Cardinality(rs) = 1
        /\ \A k \in rs :
             /\ results[k].oldIP = o.record.content
             /\ results[k].newIP = target
             /\ IF o.record.content = target
                THEN results[k].success /\ cs = { }
                ELSE /\ Cardinality(cs) = 1
                     /\ \A c \in cs : /\ calls[c].content = target
                                      /\ results[k].success = calls[c].ok

\* the outcome for a record whose family is not resolved: one failed result with
\* the given error text and no update call
FailedForMissingFamily(o, text) ==
    /\ Cardinality(ResultsOf(o.zoneId, o.record.id)) = 1
    /\ \A k \in ResultsOf(o.zoneId, o.record.id) :
         ~results[k].success /\ results[k].error = text
    /\ UpdateCallsOf(o.zoneId, o.record.id) = { }

FamilyIsolation(text4, text6) ==
    DnsReturned =>
        \A i \in DOMAIN observed :
            LET o == observed[i]
            IN  /\ (ipv4 # Undefined /\ ipv6 = Undefined) =>
                     IF o.record.type = "AAAA"
                     THEN FailedForMissingFamily(o, text6)
                     ELSE NormallyReconciled(o)
                /\ (ipv6 # Undefined /\ ipv4 = Undefined) =>
                     IF o.record.type = "A"
                     THEN FailedForMissingFamily(o, text4)
                     ELSE NormallyReconciled(o)

\* C3 as stated: in a pass with IPv4 resolved and IPv6 not, every selected AAAA
\* record has a failed result with error "no IPv6 address available" and no
\* update call, the selected A records being reconciled normally; symmetrically
\* with "no IPv4 address available".
C3_AsStated == FamilyIsolation("no IPv4 address available", "no IPv6 address available")

\* C3 as amended: the same, the error texts being "No IPv6 address available"
\* and "No IPv4 address available" (capital N).
C3_FamilyIsolation ==
    FamilyIsolation("No IPv4 address available", "No IPv6 address available")

\* a finished pass with IPv4 resolved and IPv6 not that listed an AAAA record
\* and updated an A record
C3_Witness ==
    /\ pc = "done" /\ ipv4 # Undefined /\ ipv6 = Undefined
    /\ \E i \in DOMAIN observed : observed[i].record.type = "AAAA"
    /\ \E k \in DOMAIN calls : calls[k].op = "updateDNSRecord" /\ calls[k].ok

\* C4: partial failure isolation. Once updateDNSRecords has returned, every
\* configured zone has been listed and every selected record listed has exactly
\* one result, in order, also when an update call was rejected; the result of a
\* rejected call is failed, carries the error message, oldIP = the listed
\* content and newIP = the resolved IP; every other record whose update was
\* accepted or not needed has a success result.
C4_PartialFailureIsolation ==
    DnsReturned =>
        /\ \A z \in DOMAIN cfg.zones :
             \E k \in DOMAIN calls : /\ calls[k].op = "getDNSRecords"
                                     /\ calls[k].zoneId = cfg.zones[z].zoneId
        /\ Len(results) = Len(observed)
        /\ \A i \in DOMAIN observed :
             LET o == observed[i]
                 cs == UpdateCallsOf(o.zoneId, o.record.id)
             IN  /\ results[i].zoneId = o.zoneId
                 /\ results[i].recordId = o.record.id
                 /\ (\E c \in cs : ~calls[c].ok) =>
                       /\ ~results[i].success
                       /\ results[i].error = ProviderError
                       /\ results[i].oldIP = o.record.content
                       /\ results[i].newIP = ResolvedFor(o.record.type)
                 /\ (ResolvedFor(o.record.type) # Undefined /\ \A c \in cs : calls[c].ok)
                       => results[i].success

\* a finished pass in which the update of the first record of a zone was
\* rejected, a later record of the same zone was updated, and a record of a
\* later zone has a success result
C4_Witness ==
    /\ pc = "done"
    /\ \E i, j, l \in DOMAIN observed :
         /\ i < j /\ j < l
         /\ observed[i].zoneId = observed[j].zoneId
         /\ observed[l].zoneId # observed[i].zoneId
         /\ ~results[i].success /\ results[i].error = ProviderError
         /\ results[j].success /\ results[j].oldIP # results[j].newIP
         /\ results[l].success

RECURSIVE FirstIpLiteral(_)
\* the first IP-literal entry of an include list, Undefined if there is none
FirstIpLiteral(include) ==
    IF include = << >> THEN Undefined
    ELSE IF Head(include).kind = "ip" THEN Head(include).ip
    ELSE FirstIpLiteral(Tail(include))

\* an address followed by a slash and a suffix
HasSuffix(ip) == Len(ip) = 3 /\ ip[2] = Slash

PolicyUpdateCallsOf(appId, policyId) ==
    { k \in DOMAIN calls : /\ calls[k].op = "updateAccessPolicy"
                           /\ calls[k].appId = appId
                           /\ calls[k].policyId = policyId }

\* the policy was detected as changed: one update call was issued for it with
\* the value given, and if the provider accepted it the policy's result counts
\* as updated, from the current value to the value submitted
SubmittedAsChanged(o, current, value) ==
    LET cs == PolicyUpdateCallsOf(o.appId, o.policy.id)
    IN  /\ Cardinality(cs) = 1
        /\ \A c \in cs :
             /\ calls[c].newIp = value
             /\ calls[c].ok =>
                  \E k \in DOMAIN accessResults :
                      /\ accessResults[k].appId = o.appId
                      /\ accessResults[k].policyId = o.policy.id
                      /\ accessResults[k].success
                      /\ accessResults[k].oldIP = current
                      /\ accessResults[k].newIP = value
                      /\ accessResults[k].oldIP # accessResults[k].newIP

\* C5: CIDR-preserving policy update. For every configured policy found in the
\* listing: if its first IP-literal include carries a CIDR suffix and its
\* address part differs from the resolved IPv4, the policy is detected as
\* changed (exactly one updateAccessPolicy call is issued for it) and the
\* value submitted is the resolved IPv4, a slash and the same suffix; if it
\* carries no suffix and differs from the resolved IPv4, the value submitted is
\* the bare resolved IPv4.
C5_CidrPreserved ==
    \A i \in DOMAIN observedPolicies :
        LET o == observedPolicies[i]
            current == FirstIpLiteral(o.policy.include)
        IN  /\ (HasSuffix(current) /\ << current[1] >> # accIpv4) =>
                 SubmittedAsChanged(o, current, accIpv4 \o << Slash, current[3] >>)
            /\ (~HasSuffix(current) /\ current # accIpv4) =>
                 SubmittedAsChanged(o, current, accIpv4)

\* a finished pass that submitted 2.2.2.2/32 for a policy holding 1.1.1.1/32
\* and the bare 2.2.2.2 for a policy holding the bare 1.1.1.1
C5_Witness ==
    /\ pc = "done"
    /\ accIpv4 = IPv4B
    /\ \E k, l \in DOMAIN calls :
         /\ calls[k].op = "updateAccessPolicy"
         /\ FirstIpLiteral(calls[k].policy.include) = << "1.1.1.1", "/", "32" >>
         /\ calls[k].newIp = << "2.2.2.2", "/", "32" >>
         /\ calls[l].op = "updateAccessPolicy"
         /\ FirstIpLiteral(calls[l].policy.include) = IPv4A
         /\ calls[l].newIp = IPv4B

\* C6 as stated: once updateAccessPolicies has returned under a configuration
\* with no accountId, no accessPolicies list or an empty accessPolicies list,
\* its result set is empty and it has made no resolver and no provider call.
C6_NoPolicyConfigNoCalls ==
    (pc \in { "summary", "done" }
     /\ cfg.present
     /\ (cfg.accountId = "" \/ ~cfg.hasPolicies \/ cfg.accessPolicies = << >>))
    => /\ accessResults = << >>
       /\ \A k \in DOMAIN calls : calls[k].fn # "access"

\* ------------------------------------------------------ claims on the loop

\* C7: loop drift bound. In a loop started with interval = 1 minute whose
\* passes took no time and whose cancellation key arrived at t = 90 s, exactly
\* two passes have been started, the initial one and one at t = 60 s; once the
\* loop has stopped the key listener is removed and raw mode released.
C7_LoopDriftBound ==
    (mode = "loop" /\ interval = 1 /\ cancelAt = 90 /\ slowTime = 0)
    => /\ started = 2
       /\ lastStart = 60
       /\ now > 91 => pc = "stopped"
       /\ pc = "stopped" => (~listening /\ ~rawMode /\ finished = 2)

C7_Witness ==
    /\ mode = "loop" /\ interval = 1 /\ cancelAt = 90 /\ slowTime = 0
    /\ pc = "stopped" /\ started = 2 /\ ~listening

\* the calls of the pass made by updateDNSRecords precede those made by
\* updateAccessPolicies, and both functions have resolved the IPs
RecordsThenPolicies ==
    /\ \E k \in DOMAIN calls : calls[k].op = "getPublicIPs" /\ calls[k].fn = "dns"
    /\ \E k \in DOMAIN calls : calls[k].op = "getPublicIPs" /\ calls[k].fn = "access"
    /\ \A k, l \in DOMAIN calls :
         (calls[k].fn = "dns" /\ calls[l].fn = "access") => k < l

\* C8: a started loop has begun its initial pass at once; until that pass has
\* returned no deadline is set, no second pass is started and all the time
\* that has elapsed was spent inside the pass (no waiting); the pass runs
\* record reconciliation, then policy reconciliation; the first deadline is
\* the time the initial pass returned plus the interval.
C8_InitialPassFirst ==
    (mode = "loop" /\ pc # "threw") =>
        /\ started >= 1
        /\ finished = 0 =>
             /\ started = 1 /\ lastStart = 0
             /\ InPass(pc) \/ pc = "summary"
             /\ nextCheck = 0
             /\ now = slowTime
        /\ (pc = "summary" /\ started = 1) => RecordsThenPolicies
        /\ (finished = 1 /\ started = 1) =>
             nextCheck = finishedAt + interval * SecondsPerMinute

\* the loop waits for its first deadline after an initial pass that took time
C8_Witness ==
    /\ mode = "loop" /\ pc = "sleep" /\ started = 1 /\ finished = 1
    /\ slowTime > 0 /\ nextCheck = slowTime + SecondsPerMinute /\ now > finishedAt

\* C9: at most one pass is in flight: the passes started exceed the passes
\* returned by one exactly while the loop is inside a pass, and by none
\* otherwise, however long the pass takes.
C9_OnePassInFlight ==
    mode = "loop" =>
        /\ started - finished \in { 0, 1 }
        /\ (started - finished = 1) <=> (InPass(pc) \/ pc = "summary")

\* a scheduled pass still in flight more than an interval after it started
C9_Witness ==
    /\ mode = "loop" /\ InPass(pc) /\ started = 2 /\ finished = 1
    /\ now >= lastStart + IntervalSeconds(interval)
    /\ now >= nextCheck + IntervalSeconds(interval)

\* C10: cancellation never interrupts a pass in flight. A step taken inside a
\* pass leads to the next step of that pass or to its return, whether or not
\* the cancellation key has arrived; the loop stops only from the loop head
\* (after a pass has returned or after a timer), with every started pass
\* returned; and once the key has arrived no pass is started.
C10_CancelWaitsForPass ==
    [][ mode = "loop" =>
          /\ (InPass(pc) /\ pc' # pc) => (InPass(pc') \/ pc' = "summary")
          /\ pc' = "stopped" => (pc \in { "summary", "sleep" } /\ finished' = started')
          /\ ~isRunning => started' = started ]_vars

\* the loop has stopped after a cancellation key that arrived strictly inside
\* a pass, before its policy phase
C10_Witness ==
    /\ mode = "loop" /\ pc = "stopped"
    /\ cancelAt > lastStart /\ cancelAt < finishedAt
    /\ finished = started

\* the cancellation key has arrived while the loop waits between two passes
CancelledWhileWaiting == mode = "loop" /\ pc = "sleep" /\ ~isRunning

\* after a cancellation key that arrived while the loop was waiting, the loop
\* leaves the wait only to stop, starting no pass, and the time from the key to
\* the stop is within the bound given (strictly within it if strict)
StopsWithin(bound, strict) ==
    CancelledWhileWaiting =>
        /\ now = cancelAt
        /\ pc' # pc =>
             /\ pc' = "stopped"
             /\ started' = started
             /\ IF strict THEN now' - cancelAt < bound ELSE now' - cancelAt <= bound

\* C11 as stated: while the loop waits, two consecutive samplings are less than
\* one second apart, and a cancellation key that arrives while no pass is in
\* flight stops the loop in less than one second, whatever the interval.
C11_AsStated ==
    [][ /\ (mode = "loop" /\ pc = "sleep" /\ now' # now) => now' - now < 1
        /\ StopsWithin(1, TRUE) ]_vars

\* C11 as amended: the sampling period is one second (not below it): while the
\* loop waits, two consecutive samplings are exactly PollSeconds apart, and a
\* cancellation key that arrives while no pass is in flight stops the loop
\* within one sampling period, without another pass, whatever the interval and
\* however far the deadline is.
C11_CancelLatency ==
    [][ /\ (mode = "loop" /\ pc = "sleep" /\ now' # now) => now' - now = PollSeconds
        /\ StopsWithin(PollSeconds, FALSE) ]_vars

\* the loop has stopped one sampling period after a key that arrived during a
\* wait, with the deadline of the default interval still minutes away
C11_Witness ==
    /\ mode = "loop" /\ pc = "stopped"
    /\ interval = DefaultInterval
    /\ cancelAt > finishedAt
    /\ now = cancelAt + PollSeconds
    /\ nextCheck > now + SecondsPerMinute

\* ------------------------------------------------------ claims on the menu

\* when the loop stops its key listener is removed, raw mode is released, stdin
\* is paused and the process goes on
StopCleansUp ==
    (mode = "loop" /\ pc # "stopped" /\ pc' = "stopped") =>
        /\ ~listening' /\ ~rawMode' /\ ~stdinFlowing'
        /\ exitCode' = -1

\* the stopped loop returns to the main menu, which is shown again
StopReturnsToMenu ==
    (mode = "loop" /\ pc = "stopped" /\ pc' # pc) =>
        /\ pc' = "menu" /\ menuFrom' = "auto"
        /\ exitCode' = -1
        /\ UNCHANGED << listening, rawMode, stdinFlowing >>

\* the step ends the process from the menu, by exit or by a confirmed delete
EndedByExitOrDelete ==
    /\ pc = "menu" /\ exitCode' = 0
    /\ config' = config \/ config' = NoConfig

\* C12 as stated: on cancellation the loop removes its listener, releases raw
\* mode, pauses stdin and returns to the main menu with the process running;
\* the process is ended only by the exit or delete actions of the menu.
C12_AsStated ==
    [][ /\ StopCleansUp
        /\ StopReturnsToMenu
        /\ exitCode' # exitCode => EndedByExitOrDelete ]_vars

\* C12 as amended: the same, except that the process is ended by the exit or
\* delete actions of the menu (code 0) or by main's handler of an error that a
\* menu action has thrown (code 1).
C12_CancelReturnsToMenu ==
    [][ /\ StopCleansUp
        /\ StopReturnsToMenu
        /\ exitCode' # exitCode =>
             \/ EndedByExitOrDelete
             \/ pc = "threw" /\ thrown # "" /\ exitCode' = 1 ]_vars

\* the process has been ended from the menu, with code 0, after a cancelled
\* loop had returned to it
C12_Witness ==
    /\ pc = "exited" /\ exitCode = 0 /\ menuFrom = "auto"
    /\ ~listening /\ ~rawMode /\ ~stdinFlowing

\* ------------------------------------- claims on the pass, in either mode

\* both phases of the pass in progress have returned
PassReturned == pc \in { "summary", "done" }

\* the zone entry of the configuration in use with the given id
ZoneCfgOf(zoneId) == CHOOSE z \in { cfg.zones[i] : i \in DOMAIN cfg.zones } : z.zoneId = zoneId

\* the outcome of the update call made for an item, TRUE if none was made
CallsOk(cs) == \A c \in cs : calls[c].ok

\* the results of the record phase are those the pass logic yields for the
\* records as listed, the addresses as resolved and the provider's answers
RecordResultsDetermined ==
    /\ Len(results) = Len(observed)
    /\ \A i \in DOMAIN observed :
         LET o == observed[i]
         IN  results[i] = RecordResult(ZoneCfgOf(o.zoneId), o.record, ipv4, ipv6,
                                       CallsOk(UpdateCallsOf(o.zoneId, o.record.id)))

\* every configured policy found has the result the pass logic yields for the
\* policy as listed, the IPv4 as resolved and the provider's answer
PolicyResultsDetermined ==
    \A i \in DOMAIN observedPolicies :
        LET o == observedPolicies[i]
            raw == RawPolicyIp(o.policy)
            ok == CallsOk(PolicyUpdateCallsOf(o.appId, o.policy.id))
        IN  \E k \in DOMAIN accessResults :
              /\ accessResults[k].appId = o.appId
              /\ accessResults[k].policyId = o.policy.id
              /\ accessResults[k].oldIP = (IF raw = Undefined THEN Unknown ELSE raw)
              /\ accessResults[k].success = ok
              /\ accessResults[k].newIP = (IF ok THEN NewPolicyIp(raw, accIpv4) ELSE accIpv4)

\* the resolver calls made by the two phases, in order
ResolverCalls == SelectSeq(calls, LAMBDA c : c.op = "getPublicIPs")

\* one call of updateDNSRecords, then at most one of updateAccessPolicies
\* (which resolves the addresses only if policies are configured)
OneRecordPhaseThenOnePolicyPhase ==
    /\ Len(ResolverCalls) \in { 1, 2 }
    /\ ResolverCalls[1].fn = "dns"
    /\ Len(ResolverCalls) = 2 => ResolverCalls[2].fn = "access"
    /\ Len(ResolverCalls) = 2 <=> ~PoliciesNotConfigured(cfg)
    /\ calls[1].op = "getPublicIPs"
    /\ \A k, l \in DOMAIN calls : (calls[k].fn = "dns" /\ calls[l].fn = "access") => k < l

\* C13: runSingleUpdate runs one pass and no more: one record phase followed by
\* one policy phase; until it returns no timer has run, no deadline is set, no
\* key listener is installed and raw mode and stdin are left alone; and its
\* results are those of the pass logic on the configuration, resolver answers
\* and provider state met, just as the results of a pass of the loop are.
C13_SinglePassSameAsLoopPass ==
    /\ (mode = "once" /\ pc # "anykey") =>
         /\ started = 1 /\ finished \in { 0, 1 } /\ (finished = 1 <=> pc = "done")
         /\ ~listening /\ ~rawMode /\ ~stdinFlowing /\ ~isRunning
         /\ now = 0 /\ nextCheck = 0 /\ interval = 0
         /\ PassReturned => OneRecordPhaseThenOnePolicyPhase
    /\ (mode \in { "once", "loop" } /\ PassReturned) =>
         /\ RecordResultsDetermined
         /\ PolicyResultsDetermined

\* a returned runSingleUpdate whose pass updated a record and a policy
C13_Witness ==
    /\ mode = "once" /\ pc = "done"
    /\ Len(Updated(results)) = 1 /\ Len(Updated(accessResults)) = 1
    /\ Len(ResolverCalls) = 2

\* the listing of the zone's records (of the application's policies) was
\* called in this pass, and rejected
ZoneListingCalls(zoneId) ==
    { k \in DOMAIN calls : calls[k].op = "getDNSRecords" /\ calls[k].zoneId = zoneId }
ZoneListingFailed(zoneId) == \E k \in ZoneListingCalls(zoneId) : ~calls[k].ok
AppListingCalls(appId) ==
    { k \in DOMAIN calls : calls[k].op = "getAccessPolicies" /\ calls[k].appId = appId }
AppListingFailed(appId) == \E k \in AppListingCalls(appId) : ~calls[k].ok

RECURSIVE RecordItems(_)
\* the (zone, record) pairs a pass over the given zone entries yields results
\* for, in order: per zone, its selected records as the provider lists them
RecordItems(zones) ==
    IF zones = << >> THEN << >>
    ELSE LET sel == SelectRecords(records, Head(zones))
         IN  [ i \in DOMAIN sel |-> << Head(zones).zoneId, sel[i].id >> ]
             \o RecordItems(Tail(zones))

RECURSIVE PolicyItems(_)
\* the (application, policy) pairs a pass over the given groups yields results
\* for, in order: per group, its configured policies
PolicyItems(gs) ==
    IF gs = << >> THEN << >>
    ELSE [ i \in DOMAIN Head(gs).policies |->
             << Head(gs).appId, Head(gs).policies[i].policyId >> ]
         \o PolicyItems(Tail(gs))

\* C14: listing failure isolation. A pass under a present configuration does
\* not throw. Once its record phase has returned, each configured zone has
\* been listed once (both types); a zone whose listing was rejected has no
\* result and no update call; and the results are, in order, those of a pass
\* over the configuration without the zones whose listing was rejected, each
\* being the result the pass logic yields. Once the policy phase has returned
\* with IPv4 resolved, the same holds of the applications and their policies.
C14_ListingFailureIsolation ==
    /\ (mode = "once" /\ cfg.present) => (pc # "threw" /\ thrown = "")
    /\ DnsReturned =>
         /\ \A z \in DOMAIN cfg.zones :
              LET zoneId == cfg.zones[z].zoneId
              IN  /\ Cardinality(ZoneListingCalls(zoneId)) = 2
                  /\ ZoneListingFailed(zoneId) =>
                       /\ \A k \in DOMAIN results : results[k].zoneId # zoneId
                       /\ \A k \in DOMAIN calls :
                            calls[k].op = "updateDNSRecord" => calls[k].zoneId # zoneId
         /\ [ k \in DOMAIN results |-> << results[k].zoneId, results[k].recordId >> ]
              = RecordItems(SelectSeq(cfg.zones, LAMBDA z : ~ZoneListingFailed(z.zoneId)))
         /\ RecordResultsDetermined
    /\ (PassReturned /\ ~PoliciesNotConfigured(cfg) /\ accIpv4 # Undefined) =>
         /\ \A g \in DOMAIN groups :
              /\ Cardinality(AppListingCalls(groups[g].appId)) = 1
              /\ AppListingFailed(groups[g].appId) =>
                   /\ \A k \in DOMAIN accessResults :
                        accessResults[k].appId # groups[g].appId
                   /\ \A k \in DOMAIN calls :
                        calls[k].op = "updateAccessPolicy" => calls[k].appId # groups[g].appId
         /\ [ k \in DOMAIN accessResults |->
                << accessResults[k].appId, accessResults[k].policyId >> ]
              = PolicyItems(SelectSeq(groups, LAMBDA g : ~AppListingFailed(g.appId)))
         /\ PolicyResultsDetermined

\* a finished pass in which the listings of the first zone and of the first
\* application were rejected while a record of the second zone and a policy of
\* the second application were updated
C14_Witness ==
    /\ pc = "done"
    /\ Len(cfg.zones) = 2 /\ Len(groups) = 2
    /\ ZoneListingFailed(cfg.zones[1].zoneId)
    /\ AppListingFailed(groups[1].appId)
    /\ Len(Updated(results)) = 1 /\ results[1].zoneId = cfg.zones[2].zoneId
    /\ Len(Updated(accessResults)) = 1 /\ accessResults[1].appId = groups[2].appId

\* C15: under a present configuration a pass never throws, whichever resolver,
\* listing and update calls fail, and, every call settling, it terminates:
\* both phases return and runSingleUpdate reaches its end with the result sets.
C15_PassTerminates ==
    /\ []((mode = "once" /\ config.present) => (pc # "threw" /\ thrown = ""))
    /\ (mode = "once" /\ config.present) ~> (pc = "done" /\ finished = 1)

\* a pass that has returned although both lookups, a listing and an update
\* failed
C15_Witness ==
    /\ pc = "done" /\ thrown = ""
    /\ ipv6 = Undefined
    /\ \E k \in DOMAIN calls : calls[k].op = "getDNSRecords" /\ ~calls[k].ok
    /\ \E k \in DOMAIN calls : calls[k].op = "updateDNSRecord" /\ ~calls[k].ok
    /\ \E k \in DOMAIN calls : calls[k].op = "getPublicIPs" /\ calls[k].fn = "access"
                               /\ calls[k].ipv4 = Undefined

\* C16: configuration absence is an explicit error. When loadConfig yields no
\* configuration, startUpdateLoop and runSingleUpdate (through
\* updateDNSRecords) end by throwing 'No configuration found': no resolver or
\* provider call has been made, no result produced, and the loop has neither
\* entered raw mode, nor resumed stdin, nor installed its listener, nor
\* started a pass.
C16_NoConfigThrows ==
    (mode \in { "once", "loop" } /\ ~config.present /\ pc # "dns_begin") =>
        /\ pc \in { "threw", "exited" }
        /\ thrown = "No configuration found"
        /\ pc = "exited" => exitCode = 1
        /\ calls = << >> /\ results = << >> /\ accessResults = << >>
        /\ ~rawMode /\ ~listening /\ ~stdinFlowing /\ ~isRunning
        /\ mode = "loop" => started = 0

\* runSingleUpdate has thrown for want of a configuration
C16_Witness ==
    /\ mode = "once" /\ pc = "threw" /\ ~config.present
    /\ thrown = "No configuration found" /\ started = 1 /\ calls = << >>

\* the ids of the records the provider holds in a zone
RemoteIds(zoneId) == { records[zoneId][i].id : i \in DOMAIN records[zoneId] }

\* C17 as stated: once the record phase has returned, every record id
\* configured for a zone whose listing succeeded has exactly one result, a
\* failed one if the record no longer exists at the provider; once the policy
\* phase has returned with IPv4 resolved, every configured policy of an
\* application whose listing succeeded has exactly one result.
C17_OneResultPerConfiguredItem ==
    /\ DnsReturned =>
         \A z \in DOMAIN cfg.zones :
             ~ZoneListingFailed(cfg.zones[z].zoneId) =>
                 \A id \in cfg.zones[z].selectedRecordIds :
                     /\ Cardinality(ResultsOf(cfg.zones[z].zoneId, id)) = 1
                     /\ id \notin RemoteIds(cfg.zones[z].zoneId) =>
                          \A k \in ResultsOf(cfg.zones[z].zoneId, id) : ~results[k].success
    /\ (PassReturned /\ ~PoliciesNotConfigured(cfg) /\ accIpv4 # Undefined) =>
         \A g \in DOMAIN groups :
             ~AppListingFailed(groups[g].appId) =>
                 \A i \in DOMAIN groups[g].policies :
                     Cardinality({ k \in DOMAIN accessResults :
                                     /\ accessResults[k].appId = groups[g].appId
                                     /\ accessResults[k].policyId =
                                          groups[g].policies[i].policyId }) = 1

\* ------------------------------------------------------ claims on summaries

\* the step prints the summary of a pass (SingleSummary or LoopSummary)
SummaryStep == pc = "summary" /\ pc' # pc

\* the positions of a result set in each class of the summary
UpdatedAt(rs) == { k \in DOMAIN rs : rs[k].success /\ rs[k].oldIP # rs[k].newIP }
UnchangedAt(rs) == { k \in DOMAIN rs : rs[k].success /\ rs[k].oldIP = rs[k].newIP }
FailedAt(rs) == { k \in DOMAIN rs : ~rs[k].success }

\* the accepted update calls of the pass with the given operation
AcceptedCalls(op) == { c \in DOMAIN calls : calls[c].op = op /\ calls[c].ok }

\* the three counts printed are those of three classes that no result is left
\* out of; the failed lines printed are, in order, the names and error texts
\* of the failed results, none of them without a text
PartitionPrinted(rs, nUpdated, nUnchanged, nFailed, failedLines, names) ==
    /\ nUpdated = Cardinality(UpdatedAt(rs))
    /\ nUnchanged = Cardinality(UnchangedAt(rs))
    /\ nFailed = Cardinality(FailedAt(rs))
    /\ nUpdated + nUnchanged + nFailed = Len(rs)
    /\ Len(failedLines) = nFailed
    /\ \A k \in FailedAt(rs) :
         /\ rs[k].error # ""
         /\ failedLines[Cardinality({ j \in FailedAt(rs) : j <= k })]
              = << names[k], rs[k].error >>

\* C18: the summary printed after a pass, by runSingleUpdate and by the loop,
\* counts every result of the pass in exactly one of updated, unchanged and
\* failed; a result counts as updated exactly if an update call was issued for
\* its item and accepted, so that the updated counts are the numbers of
\* accepted update calls; and every failed result is listed with its error
\* text.
C18_SummaryPartition ==
    [][ SummaryStep =>
          /\ printed'.shown
          /\ PartitionPrinted(results, printed'.dnsUpdated, printed'.dnsUnchanged,
                              printed'.dnsFailed, printed'.dnsFailedLines,
                              [ k \in DOMAIN results |-> results[k].recordName ])
          /\ PartitionPrinted(accessResults, printed'.accessUpdated,
                              printed'.accessUnchanged, printed'.accessFailed,
                              printed'.accessFailedLines,
                              [ k \in DOMAIN accessResults |-> accessResults[k].policyName ])
          /\ \A k \in DOMAIN results :
               k \in UpdatedAt(results) <=>
                 \E c \in UpdateCallsOf(results[k].zoneId, results[k].recordId) : calls[c].ok
          /\ \A k \in DOMAIN accessResults :
               k \in UpdatedAt(accessResults) <=>
                 \E c \in PolicyUpdateCallsOf(accessResults[k].appId,
                                              accessResults[k].policyId) : calls[c].ok
          /\ printed'.dnsUpdated = Cardinality(AcceptedCalls("updateDNSRecord"))
          /\ printed'.accessUpdated = Cardinality(AcceptedCalls("updateAccessPolicy")) ]_vars

\* the loop has printed a summary with a failed record, listed with its error
\* text, and an updated policy
C18_Witness ==
    /\ mode = "loop" /\ printed.shown
    /\ printed.dnsFailed = 1 /\ printed.dnsUpdated = 0 /\ printed.dnsUnchanged = 0
    /\ printed.dnsFailedLines = << << "a.two.example", ProviderError >> >>
    /\ printed.accessUpdated = 1 /\ printed.accessFailed = 0

\* C19: the next tick is scheduled from the time the pass returned. While the
\* loop waits, the deadline is the time the latest pass returned plus the
\* interval; and a pass that follows another has started no earlier than the
\* time that one returned plus the interval, however long that one took.
C19_ScheduledFromPassEnd ==
    (mode = "loop" /\ finished >= 1) =>
        /\ pc \in { "sleep", "stopped" } =>
             nextCheck = finishedAt + IntervalSeconds(interval)
        /\ started > finished =>
             /\ lastStart >= finishedAt + IntervalSeconds(interval)
             /\ lastStart >= nextCheck

\* the loop is still waiting, several ticks after a scheduled pass that took
\* longer than the interval has returned
C19_Witness ==
    /\ mode = "loop" /\ pc = "sleep"
    /\ started = 2 /\ finished = 2
    /\ finishedAt - lastStart > IntervalSeconds(interval)
    /\ now >= finishedAt + 3 * PollSeconds
    /\ nextCheck = finishedAt + IntervalSeconds(interval)

\* ------------------------------------------------------ claims on the resolver

\* C20: getPublicIPs never throws and isolates the two families. Every call of
\* it made both lookups and returned: the address of each family is the one its
\* lookup resolved, or undefined if that lookup failed, whatever the other
\* lookup did; the caller received exactly these values and went on.
C20_ResolverIsolatesFamilies ==
    /\ \A k \in DOMAIN calls :
         calls[k].op = "getPublicIPs" =>
             /\ calls[k].ipv4 = (IF calls[k].lookup4.ok THEN calls[k].lookup4.value
                                 ELSE Undefined)
             /\ calls[k].ipv6 = (IF calls[k].lookup6.ok THEN calls[k].lookup6.value
                                 ELSE Undefined)
             /\ calls[k].fn = "dns" => (ipv4 = calls[k].ipv4 /\ ipv6 = calls[k].ipv6)
             /\ calls[k].fn = "access" => accIpv4 = calls[k].ipv4
    /\ (cfg.present /\ calls # << >>) => (pc # "threw" /\ thrown = "")

\* a finished pass in which the record phase got the IPv4 although the IPv6
\* lookup failed, and the policy phase got no IPv4 although the IPv6 lookup
\* succeeded
C20_Witness ==
    /\ pc = "done"
    /\ Len(ResolverCalls) = 2
    /\ ResolverCalls[1].lookup4.ok /\ ~ResolverCalls[1].lookup6.ok
    /\ ipv4 = ResolverCalls[1].lookup4.value /\ ipv4 # Undefined /\ ipv6 = Undefined
    /\ ~ResolverCalls[2].lookup4.ok /\ ResolverCalls[2].lookup6.ok
    /\ ResolverCalls[2].ipv6 = ResolverCalls[2].lookup6.value /\ accIpv4 = Undefined

\* ------------------------------------------------------ claims on the interval

\* the step is the call of startUpdateLoop that gets the loop going
LoopStarts == pc = "menu" /\ mode' = "loop" /\ pc' # "threw"

\* C21: the interval of the loop is the argument if one was passed, else the
\* updateInterval of the configuration loaded at the start if it has one, else
\* 5 minutes; it is fixed at the start: no later step of the loop run changes
\* it, also when the stored updateInterval changes meanwhile; and every
\* deadline the run sets is the time of setting plus that many minutes.
C21_IntervalFixedAtStart ==
    [][ /\ LoopStarts =>
             interval' = (IF givenInterval' # 0 THEN givenInterval'
                          ELSE IF config.updateInterval # 0 THEN config.updateInterval
                          ELSE 5)
        /\ (mode = "loop" /\ mode' = "loop") =>
             /\ interval' = interval
             /\ nextCheck' # nextCheck => nextCheck' = now' + interval * 60 ]_vars

\* a loop started without an argument under a stored interval of one minute has
\* set its second deadline one minute after its second pass although the
\* stored interval has become two minutes meanwhile
C21_Witness ==
    /\ mode = "loop" /\ pc = "sleep"
    /\ givenInterval = 0 /\ interval = 1 /\ config.updateInterval = 2
    /\ started = 2 /\ finished = 2
    /\ nextCheck = finishedAt + 60

\* ------------------------------------------------- claims on notifications

\* the results of the pass that call for a notification: the updated and the
\* failed ones, of records and of policies
Notifiable ==
    Len(Updated(results)) + Len(Failed(results))
    + Len(Updated(accessResults)) + Len(Failed(accessResults))

\* C22 as stated: once a pass has returned under a configuration with a
\* Discord or Slack webhook URL, a notification has been posted for every
\* updated record or policy and for every failed update of the pass.
C22_NotifiesOnChangeAndFailure ==
    (PassReturned /\ WebhookConfigured(cfg)) => Len(posted) >= Notifiable

\* ------------------------------------------- claims on the record phase

\* the record id is one the configuration in use selects in the zone
IsSelected(c, zoneId, recordId) ==
    /\ c.present
    /\ \E z \in DOMAIN c.zones :
         c.zones[z].zoneId = zoneId /\ recordId \in c.zones[z].selectedRecordIds

\* C23: records outside a zone's configured id set are never acted upon. Every
\* updateDNSRecord call of a pass targets a record id that its zone's
\* selectedRecordIds holds, every result is that of such a record, and a step
\* changes no record at the provider but such a one.
C23_OnlySelectedRecords ==
    [][ /\ \A k \in DOMAIN calls' :
             calls'[k].op = "updateDNSRecord" =>
                 IsSelected(cfg', calls'[k].zoneId, calls'[k].recordId)
        /\ \A k \in DOMAIN results' :
             IsSelected(cfg', results'[k].zoneId, results'[k].recordId)
        /\ \A z \in ZoneIds : \A i \in DOMAIN records[z] :
             records'[z][i] # records[z][i] =>
                 /\ records'[z][i].id = records[z][i].id
                 /\ IsSelected(cfg, z, records[z][i].id) ]_vars

\* a finished pass over a zone that updated its one selected record and left
\* alone a listed record of the same type that differs from the resolved IP
C23_Witness ==
    /\ pc = "done"
    /\ cfg.zones = << ZoneCfg("z1", { "r1" }) >>
    /\ ipv4 = IPv4A
    /\ Len(results) = 1 /\ Len(Updated(results)) = 1
    /\ \E i \in DOMAIN records["z1"] :
         /\ records["z1"][i].id = "r2" /\ records["z1"][i].type = "A"
         /\ records["z1"][i].content # ipv4

\* the addresses of each family
IPv4s == { IPv4A, IPv4B }
IPv6s == { IPv6A, IPv6B }

\* the entries of the listing log for a record of a zone
ObservedOf(zoneId, recordId) ==
    { i \in DOMAIN observed :
        observed[i].zoneId = zoneId /\ observed[i].record.id = recordId }

\* C24: a record update changes only the content. Every updateDNSRecord call
\* carries the name, type, proxied flag and TTL of the record as listed in the
\* same pass; its content is the resolved IP of the record's own family, an
\* IPv4 for an A record and an IPv6 for an AAAA record; and an accepted update
\* leaves every field of the provider's record but the content as it was.
C24_UpdateChangesOnlyContent ==
    [][ /\ \A k \in DOMAIN calls' :
             calls'[k].op = "updateDNSRecord" =>
                 /\ ObservedOf(calls'[k].zoneId, calls'[k].recordId) # { }
                 /\ \A i \in ObservedOf(calls'[k].zoneId, calls'[k].recordId) :
                      /\ calls'[k].name = observed[i].record.name
                      /\ calls'[k].type = observed[i].record.type
                      /\ calls'[k].proxied = observed[i].record.proxied
                      /\ calls'[k].ttl = observed[i].record.ttl
                      /\ calls'[k].content # observed[i].record.content
                 /\ calls'[k].type = "A" =>
                      (calls'[k].content = ipv4 /\ calls'[k].content \in IPv4s)
                 /\ calls'[k].type = "AAAA" =>
                      (calls'[k].content = ipv6 /\ calls'[k].content \in IPv6s)
        /\ \A z \in ZoneIds :
             /\ Len(records'[z]) = Len(records[z])
             /\ \A i \in DOMAIN records[z] :
                  records'[z][i] = [ records[z][i] EXCEPT !.content = records'[z][i].content ]
      ]_vars

\* a finished pass that updated a proxied AAAA record to the resolved IPv6 and
\* an A record with a TTL of 120 to the resolved IPv4
C24_Witness ==
    /\ pc = "done"
    /\ \E k, l \in DOMAIN calls :
         /\ calls[k].op = "updateDNSRecord" /\ calls[k].ok
         /\ calls[k].type = "AAAA" /\ calls[k].proxied /\ calls[k].content = ipv6
         /\ calls[l].op = "updateDNSRecord" /\ calls[l].ok
         /\ calls[l].type = "A" /\ calls[l].ttl = 120 /\ calls[l].content = ipv4
    /\ \E i \in DOMAIN records["z1"] :
         /\ records["z1"][i].id = "r3" /\ records["z1"][i].content = ipv6
         /\ records["z1"][i].proxied /\ records["z1"][i].name = "a.one.example"

\* the positions of the resolver calls made by updateDNSRecords in this pass
DnsResolverCalls ==
    { k \in DOMAIN calls : calls[k].op = "getPublicIPs" /\ calls[k].fn = "dns" }

\* what the resolver call at position k answered for the family of a type
AnsweredFor(k, type) == IF type = "A" THEN calls[k].ipv4 ELSE calls[k].ipv6

\* C25: record reconciliation resolves the public IPs once per pass, before the
\* first zone. From the resolver call on, it is the first call of the pass and
\* the only resolver call of updateDNSRecords, however many zones and records
\* follow; every update call submits what that call answered for the record's
\* family, and every result carries it as newIP (or the old content if the
\* family was not resolved).
C25_ResolvedOncePerPass ==
    (mode = "once" /\ pc \notin { "menu", "dns_begin", "threw" }) =>
        /\ DnsResolverCalls = { 1 }
        /\ \A k \in DOMAIN calls :
             calls[k].op = "updateDNSRecord" =>
                 calls[k].content = AnsweredFor(1, calls[k].type)
        /\ Len(results) <= Len(observed)
        /\ \A i \in DOMAIN results :
             /\ results[i].recordId = observed[i].record.id
             /\ results[i].newIP =
                  IF AnsweredFor(1, observed[i].record.type) # Undefined
                  THEN AnsweredFor(1, observed[i].record.type)
                  ELSE observed[i].record.content

\* a finished pass over two zones that updated an A record in each of them to
\* the IPv4 of its one resolver call
C25_Witness ==
    /\ pc = "done" /\ Len(cfg.zones) = 2
    /\ DnsResolverCalls = { 1 }
    /\ \E i, j \in DOMAIN results :
         /\ results[i].zoneId = "z1" /\ results[j].zoneId = "z2"
         /\ results[i].success /\ results[j].success
         /\ results[i].oldIP # results[i].newIP /\ results[j].oldIP # results[j].newIP
         /\ results[i].newIP = calls[1].ipv4 /\ results[j].newIP = calls[1].ipv4

\* the position of a zone in the configuration in use
ZoneIndex(zoneId) == CHOOSE z \in DOMAIN cfg.zones : cfg.zones[z].zoneId = zoneId

\* the calls of the pass that name a zone: its listings and its updates
ZoneCalls == { k \in DOMAIN calls : calls[k].op \in { "getDNSRecords", "updateDNSRecord" } }

\* the ids of the records of a type that a zone entry selects, in the order the
\* provider holds them
SelectedOfType(zone, type) ==
    LET rs == SelectSeq(records[zone.zoneId],
                        LAMBDA r : r.type = type /\ r.id \in zone.selectedRecordIds)
    IN  [ i \in DOMAIN rs |-> << zone.zoneId, rs[i].id >> ]

RECURSIVE ExpectedOrder(_)
\* zone by zone in the order given, the selected A records of the zone, then
\* its selected AAAA records
ExpectedOrder(zones) ==
    IF zones = << >> THEN << >>
    ELSE SelectedOfType(Head(zones), "A") \o SelectedOfType(Head(zones), "AAAA")
         \o ExpectedOrder(Tail(zones))

\* the position of the result of a record
ResultIndex(zoneId, recordId) ==
    CHOOSE k \in DOMAIN results : results[k].zoneId = zoneId /\ results[k].recordId = recordId

\* C26: result ordering. The calls of a pass that name a zone come zone by zone
\* in configuration order, no call of a zone following a call of a later zone;
\* within a zone the A listing is called first, then the AAAA listing, then
\* the updates, in the order of the results; and once the record phase has
\* returned the result list is, zone by zone in configuration order (less the
\* zones whose listing was rejected), the selected A records in the provider's
\* order followed by the selected AAAA records in the provider's order.
C26_ResultOrder ==
    /\ \A k, l \in ZoneCalls :
         k < l =>
           /\ ZoneIndex(calls[k].zoneId) <= ZoneIndex(calls[l].zoneId)
           /\ calls[k].zoneId = calls[l].zoneId =>
                /\ calls[l].op = "getDNSRecords" =>
                     (calls[k].op = "getDNSRecords" /\ calls[k].type = "A"
                      /\ calls[l].type = "AAAA" /\ l = k + 1)
                /\ (calls[k].op = "updateDNSRecord" /\ calls[l].op = "updateDNSRecord") =>
                     ResultIndex(calls[k].zoneId, calls[k].recordId)
                       < ResultIndex(calls[l].zoneId, calls[l].recordId)
    /\ DnsReturned =>
         [ k \in DOMAIN results |-> << results[k].zoneId, results[k].recordId >> ]
           = ExpectedOrder(SelectSeq(cfg.zones, LAMBDA z : ~ZoneListingFailed(z.zoneId)))

\* a finished pass under a configuration that names zone z2 before zone z1: the
\* results are z2's record, then z1's two A records, then its AAAA record, and
\* z1's last A record and its AAAA record were updated in that order
C26_Witness ==
    /\ pc = "done"
    /\ [ k \in DOMAIN results |-> << results[k].zoneId, results[k].recordId >> ]
         = << << "z2", "r4" >>, << "z1", "r1" >>, << "z1", "r2" >>, << "z1", "r3" >> >>
    /\ \E k, l \in DOMAIN calls :
         /\ k < l
         /\ calls[k].op = "updateDNSRecord" /\ calls[k].recordId = "r2"
         /\ calls[l].op = "updateDNSRecord" /\ calls[l].recordId = "r3"

\* ------------------------------------------- claims on the policy phase

\* an address without its CIDR suffix, if it has one
StripSuffix(ip) == IF HasSuffix(ip) THEN << ip[1] >> ELSE ip

PolicyResultsOf(appId, policyId) ==
    { k \in DOMAIN accessResults :
        accessResults[k].appId = appId /\ accessResults[k].policyId = policyId }

\* C27: policy idempotence under normalization. For every configured policy
\* found in the listing whose first IP-literal include, without its CIDR
\* suffix, equals the resolved IPv4, the pass has emitted one result, a success
\* with oldIP = newIP = the remote value as it stands (suffix included), and
\* has issued no updateAccessPolicy call for it, whether the remote value
\* carries a suffix or not.
C27_PolicyIdempotence ==
    \A i \in DOMAIN observedPolicies :
        LET o == observedPolicies[i]
            current == FirstIpLiteral(o.policy.include)
        IN  (current # Undefined /\ StripSuffix(current) = StripSuffix(accIpv4)) =>
              /\ Cardinality(PolicyResultsOf(o.appId, o.policy.id)) = 1
              /\ \A k \in PolicyResultsOf(o.appId, o.policy.id) :
                   /\ accessResults[k].success
                   /\ accessResults[k].oldIP = current
                   /\ accessResults[k].newIP = current
                   /\ accessResults[k].error = ""
              /\ PolicyUpdateCallsOf(o.appId, o.policy.id) = { }

\* a finished pass that found one policy holding 1.1.1.1/32 and one holding the
\* bare 1.1.1.1, resolved 1.1.1.1, reported both unchanged and made no update
\* call
C27_Witness ==
    /\ pc = "done" /\ accIpv4 = IPv4A
    /\ Len(accessResults) = 2 /\ Len(Unchanged(accessResults)) = 2
    /\ \E k, l \in DOMAIN accessResults :
         /\ accessResults[k].oldIP = << "1.1.1.1", "/", "32" >>
         /\ accessResults[l].oldIP = << "1.1.1.1" >>
    /\ \A c \in DOMAIN calls : calls[c].op # "updateAccessPolicy"

\* the provider holds, for the application, a policy of that id with an
\* IP-literal include
RemotelyListed(appId, policyId) ==
    \E i \in DOMAIN policies[appId] :
        /\ policies[appId][i].id = policyId
        /\ \E j \in DOMAIN policies[appId][i].include :
             policies[appId][i].include[j].kind = "ip"

\* once the policy phase has returned with IPv4 resolved: in every application
\* whose listing succeeded, each configured policy has exactly one result; the
\* result of a policy that the listing lacks (no policy of that id, or one
\* without an IP-literal include) is failed with the error text given, and no
\* update call was made for it; the other configured policies of the
\* application have the outcome of their own reconciliation
PolicyNotFoundIsolation(text) ==
    (PassReturned /\ ~PoliciesNotConfigured(cfg) /\ accIpv4 # Undefined) =>
        \A g \in DOMAIN groups :
            ~AppListingFailed(groups[g].appId) =>
                \A i \in DOMAIN groups[g].policies :
                    LET appId == groups[g].appId
                        policyId == groups[g].policies[i].policyId
                        rs == PolicyResultsOf(appId, policyId)
                    IN  /\ Cardinality(rs) = 1
                        /\ IF RemotelyListed(appId, policyId)
                           THEN \A k \in rs :
                                  /\ accessResults[k].error # text
                                  /\ accessResults[k].success
                                       = CallsOk(PolicyUpdateCallsOf(appId, policyId))
                           ELSE /\ \A k \in rs :
                                     /\ ~accessResults[k].success
                                     /\ accessResults[k].error = text
                                     /\ accessResults[k].newIP = accIpv4
                                /\ PolicyUpdateCallsOf(appId, policyId) = { }

\* C28 as stated: a configured policy absent from the policies listed for its
\* application (also one filtered out for having no IP-literal include) yields
\* a failed result with error "policy not found" and no update call, and the
\* remaining configured policies of the application are still processed.
C28_AsStated == PolicyNotFoundIsolation("policy not found")

\* C28 as amended: the same, the error text being "Policy not found" (capital
\* P).
C28_PolicyNotFound == PolicyNotFoundIsolation("Policy not found")

\* a finished pass whose first configured policy, one without an IP-literal
\* include, was not found, and whose second policy, of the same application,
\* was updated
C28_Witness ==
    /\ pc = "done" /\ Len(accessResults) = 2
    /\ accessResults[1].policyId = "p3" /\ ~accessResults[1].success
    /\ accessResults[1].error = "Policy not found"
    /\ accessResults[2].appId = accessResults[1].appId
    /\ accessResults[2].success /\ accessResults[2].oldIP # accessResults[2].newIP
    /\ Cardinality(PolicyUpdateCallsOf("app1", "p1")) = 1

\* the position of the resolver call made by updateAccessPolicies, if any
AccessResolverCalls ==
    { k \in DOMAIN calls : calls[k].op = "getPublicIPs" /\ calls[k].fn = "access" }

\* the provider calls made by updateAccessPolicies in this pass
AccessProviderCalls ==
    { k \in DOMAIN calls : calls[k].op \in { "getAccessPolicies", "updateAccessPolicy" } }

\* C29: policy reconciliation uses only IPv4. If the IPv4 lookup of
\* updateAccessPolicies failed, whether or not its IPv6 lookup succeeded, the
\* function has returned normally with no result, without any policy listing
\* or update call and without throwing, and the provider's policies are
\* untouched; if the IPv4 lookup succeeded, the phase goes on whether or not
\* IPv6 resolved, and every value it submits is built on that IPv4.
C29_PoliciesNeedIPv4 ==
    \A r \in AccessResolverCalls :
        IF ~calls[r].lookup4.ok
        THEN /\ pc \in { "summary", "done" }
             /\ thrown = ""
             /\ accessResults = << >>
             /\ AccessProviderCalls = { }
             /\ observedPolicies = << >>
             /\ policies = InitialPolicies
        ELSE /\ accIpv4 = calls[r].lookup4.value
             /\ PassReturned => \A g \in DOMAIN groups : AppListingCalls(groups[g].appId) # { }
             /\ \A k \in AccessProviderCalls :
                  calls[k].op = "updateAccessPolicy" =>
                      StripSuffix(calls[k].newIp) = calls[r].lookup4.value

\* a finished pass under a configuration with policies whose policy phase got
\* an IPv6 but no IPv4 and returned without results, after a record phase that
\* had an IPv4 and updated a record
C29_Witness ==
    /\ pc = "done" /\ ~PoliciesNotConfigured(cfg) /\ cfg.accessPolicies # << >>
    /\ \E r \in AccessResolverCalls : ~calls[r].lookup4.ok /\ calls[r].lookup6.ok
    /\ accessResults = << >> /\ AccessProviderCalls = { }
    /\ Len(Updated(results)) = 1

\* the application ids the configured policies name
ConfiguredApps(list) == { list[i].appId : i \in DOMAIN list }

\* the policy listing calls of the pass, in order
PolicyListingCalls == SelectSeq(calls, LAMBDA c : c.op = "getAccessPolicies")

\* C30: policy listing is batched per application. Once the policy phase has
\* returned with IPv4 resolved, getAccessPolicies has been called exactly once
\* for each distinct appId among the configured policies and for no other,
\* however many configured policies share the appId and wherever they stand in
\* the list; the listing of an application precedes every update call for it;
\* and each configured policy of an application whose listing succeeded has
\* its one result from that listing.
C30_OneListingPerApp ==
    (PassReturned /\ ~PoliciesNotConfigured(cfg) /\ accIpv4 # Undefined) =>
        /\ { PolicyListingCalls[k].appId : k \in DOMAIN PolicyListingCalls }
             = ConfiguredApps(cfg.accessPolicies)
        /\ Len(PolicyListingCalls) = Cardinality(ConfiguredApps(cfg.accessPolicies))
        /\ \A a \in ConfiguredApps(cfg.accessPolicies) :
             /\ Cardinality(AppListingCalls(a)) = 1
             /\ \A l \in AppListingCalls(a) : \A k \in DOMAIN calls :
                  (calls[k].op = "updateAccessPolicy" /\ calls[k].appId = a) => l < k
             /\ ~AppListingFailed(a) =>
                  \A i \in DOMAIN cfg.accessPolicies :
                      cfg.accessPolicies[i].appId = a =>
                          Cardinality(PolicyResultsOf(a, cfg.accessPolicies[i].policyId)) = 1

\* a finished pass under three configured policies of two applications, the
\* two of the first application not adjacent in the list: two listing calls,
\* three results
C30_Witness ==
    /\ pc = "done"
    /\ Len(cfg.accessPolicies) = 3
    /\ cfg.accessPolicies[1].appId = cfg.accessPolicies[3].appId
    /\ cfg.accessPolicies[1].appId # cfg.accessPolicies[2].appId
    /\ Len(PolicyListingCalls) = 2
    /\ Len(accessResults) = 3
    /\ [ k \in DOMAIN accessResults |-> accessResults[k].policyId ] = << "p1", "p2", "p4" >>

\* ------------------------------------------- claims on the policy update

\* the entries of the policy listing log for a policy of an application
ObservedPoliciesOf(appId, policyId) ==
    { i \in DOMAIN observedPolicies :
        observedPolicies[i].appId = appId /\ observedPolicies[i].policy.id = policyId }

\* the include list is that of the policy as listed with every IP-literal
\* entry holding the value given and every other entry as it was, in place
RewrittenFrom(include, listed, value) ==
    /\ Len(include) = Len(listed)
    /\ \A j \in DOMAIN listed :
         IF listed[j].kind = "ip"
         THEN include[j].kind = "ip" /\ include[j].ip = value
         ELSE include[j] = listed[j]

\* every updateAccessPolicy call submits the include list of the policy as
\* listed with each IP-literal entry set to the new value, and the decision,
\* exclude and require as listed
CallsSubmitAsListed ==
    \A k \in DOMAIN calls :
        calls[k].op = "updateAccessPolicy" =>
            /\ ObservedPoliciesOf(calls[k].appId, calls[k].policyId) # { }
            /\ \A i \in ObservedPoliciesOf(calls[k].appId, calls[k].policyId) :
                 LET listed == observedPolicies[i].policy
                 IN  /\ RewrittenFrom(calls[k].include, listed.include, calls[k].newIp)
                     /\ calls[k].decision = listed.decision
                     /\ calls[k].exclude = listed.exclude
                     /\ calls[k].require = listed.require

\* C31: a policy update rewrites every IP-literal include entry of the policy
\* to the new value and leaves everything else as listed. Every
\* updateAccessPolicy call submits the include list of the policy as listed in
\* the same pass with each IP-literal entry set to the new value and the
\* entries of other kinds in place and unmodified, and the decision, exclude
\* and require as listed; a step changes a policy at the provider in no other
\* way.
C31_PolicyUpdateFrame ==
    [][ /\ CallsSubmitAsListed'
        /\ \A a \in AppIds :
             /\ Len(policies'[a]) = Len(policies[a])
             /\ \A i \in DOMAIN policies[a] :
                  /\ policies'[a][i] = [ policies[a][i] EXCEPT !.include = policies'[a][i].include ]
                  /\ policies'[a][i] # policies[a][i] =>
                       \E v \in { accIpv4, NewPolicyIp(RawPolicyIp(policies[a][i]), accIpv4) } :
                           RewrittenFrom(policies'[a][i].include, policies[a][i].include, v)
      ]_vars

\* a finished pass that updated a policy with an IP-list reference and two IP
\* literals of different suffixes: both literals hold the new value, the
\* reference stands first as before
C31_Witness ==
    /\ pc = "done" /\ accIpv4 = IPv4B
    /\ \E k \in DOMAIN calls :
         /\ calls[k].op = "updateAccessPolicy" /\ calls[k].ok /\ calls[k].policyId = "p1"
         /\ calls[k].include = << ListInclude("list1"), IpInclude(Cidr(IPv4B, "32")),
                                  IpInclude(Cidr(IPv4B, "32")) >>
    /\ policies["app1"][1].include = << ListInclude("list1"), IpInclude(Cidr(IPv4B, "32")),
                                        IpInclude(Cidr(IPv4B, "32")) >>
    /\ policies["app1"][1].decision = "bypass"

\* C32: each policy update is submitted through exactly one of the two provider
\* endpoints, chosen by the reusable flag the listing of the same pass reported
\* for that policy: the account-scoped endpoint if and only if reusable is
\* true, otherwise the application-scoped endpoint.
C32_EndpointByReusable ==
    \A k \in DOMAIN calls :
        calls[k].op = "updateAccessPolicy" =>
            /\ calls[k].endpoint \in { "account", "application" }
            /\ ObservedPoliciesOf(calls[k].appId, calls[k].policyId) # { }
            /\ \A i \in ObservedPoliciesOf(calls[k].appId, calls[k].policyId) :
                 /\ calls[k].endpoint = "account" <=> observedPolicies[i].policy.reusable
                 /\ calls[k].endpoint = "application" <=> ~observedPolicies[i].policy.reusable

\* a finished pass that updated a reusable policy through the account endpoint
\* and a policy of the same application through the application endpoint
C32_Witness ==
    /\ pc = "done"
    /\ \E k, l \in DOMAIN calls :
         /\ calls[k].op = "updateAccessPolicy" /\ calls[k].policyId = "p2"
         /\ calls[k].endpoint = "account" /\ calls[k].ok
         /\ calls[l].op = "updateAccessPolicy" /\ calls[l].policyId = "p1"
         /\ calls[l].endpoint = "application" /\ calls[l].ok

\* ------------------------------------------ claims on calls that do not return

\* C33: no timeout guards a provider call: while a resolver or provider call of
\* a pass has not returned, the pass does not complete, the loop starts no
\* further pass, and a cancellation key pressed meanwhile does not bring the
\* loop to Stopped. Every step taken while a pass is in flight that is not the
\* return of one of its calls leaves the pass where it is, the counts of passes
\* started and finished as they are, and raw mode and the key listener in
\* place: a call that never returns holds the loop there for ever.
C33_NoTimeoutOnCalls ==
    [][ (mode = "loop" /\ InPass(pc) /\ ~PassNext) =>
            /\ pc' = pc
            /\ started' = started /\ finished' = finished
            /\ lastStart' = lastStart
            /\ rawMode' = rawMode /\ listening' = listening
      ]_vars

\* the second pass is in flight on a call that has taken longer than the
\* interval; the stop key was pressed during it; the deadline of the next pass
\* has gone by; the loop still holds raw mode and the listener
C33_Witness ==
    /\ mode = "loop" /\ InPass(pc)
    /\ started = 2 /\ finished = 1
    /\ now - lastStart >= SlowCall
    /\ ~isRunning /\ cancelAt > lastStart
    /\ now >= lastStart + IntervalSeconds(interval)
    /\ rawMode /\ listening

\* ---------------------------------------------- claims on the cancellation flag

\* the chunks that are exactly 'q', 'Q' or Ctrl+C
StopChunks == { "q", "Q", "ctrl-c" }

\* C34: the cancellation flag is monotonic and set only by the designated keys.
\* isRunning is true when startUpdateLoop has set the loop up; a step clears it
\* only by delivering a chunk that is exactly 'q', 'Q' or Ctrl+C to
\* keyListener; once false it is never true again in that loop; and the
\* delivery of any other chunk changes nothing.
C34_CancelFlagMonotonic ==
    [][ /\ (mode # "loop" /\ mode' = "loop" /\ pc' # "threw") => isRunning'
        /\ (mode = "loop" /\ isRunning /\ ~isRunning') =>
               \E str \in StopChunks : keyListener(str)
        /\ (mode = "loop" /\ ~isRunning) => ~isRunning'
        /\ \A str \in Chunks \ StopChunks : keyListener(str) => UNCHANGED vars
      ]_vars

\* the stop key has been pressed while the loop waited, and the loop has ended
\* with the flag still cleared
C34_Witness ==
    /\ mode = "loop" /\ pc = "stopped"
    /\ ~isRunning /\ cancelAt >= 0 /\ finished >= 1
    /\ cancelAt > finishedAt

\* ------------------------------------------------- claims on successive passes

\* a pass of the loop has returned and its summary is about to be printed
LoopPassReturned == mode = "loop" /\ pc = "summary"

\* the pass resolved the addresses the pass before it resolved
SameAddresses ==
    /\ lastPass.ipv4 = ipv4 /\ lastPass.ipv6 = ipv6 /\ lastPass.accIpv4 = accIpv4

\* every listing call of the pass was answered
ListingsAnswered ==
    \A k \in DOMAIN calls :
        calls[k].op \in { "getDNSRecords", "getAccessPolicies" } => calls[k].ok

\* the pass issued no update call
NoUpdateCalls ==
    \A k \in DOMAIN calls : calls[k].op \notin { "updateDNSRecord", "updateAccessPolicy" }

\* the pass reports every selected record and every configured policy, and
\* each as unchanged
AllUnchanged ==
    /\ AllReported(cfg, results, accessResults)
    /\ Len(Unchanged(results)) = Len(results)
    /\ Len(Unchanged(accessResults)) = Len(accessResults)

ARecordWrites ==
    { k \in DOMAIN calls : calls[k].op = "updateDNSRecord" /\ calls[k].type = "A" }
PolicyWrites == { k \in DOMAIN calls : calls[k].op = "updateAccessPolicy" }

\* the answers getPublicIPs gave to the function fn of the pass
ResolverAnswers(fn) ==
    { calls[k].ipv4 : k \in { j \in DOMAIN calls :
                                calls[j].op = "getPublicIPs" /\ calls[j].fn = fn } }

\* C36 as stated: within one full pass the IPv4 address written to A records
\* and the IPv4 address written to access policies are the same value,
\* whatever the resolver answers while the pass runs.
C36_AsStated ==
    \A k \in ARecordWrites : \A l \in PolicyWrites :
        calls[k].content = normalizeIp(calls[l].newIp)

\* C36: within one full pass every A record is written the IPv4 address that
\* getPublicIPs returned to updateDNSRecords and every access policy the one it
\* returned to updateAccessPolicies; the two are the same value if the resolver
\* gave both calls the same answer.
C36_EachPhaseItsOwnAddress ==
    /\ \A k \in ARecordWrites : ResolverAnswers("dns") = { calls[k].content }
    /\ \A l \in PolicyWrites : ResolverAnswers("access") = { normalizeIp(calls[l].newIp) }
    /\ ResolverAnswers("dns") = ResolverAnswers("access") =>
         \A k \in ARecordWrites : \A l \in PolicyWrites :
             calls[k].content = normalizeIp(calls[l].newIp)

\* a finished pass whose public IPv4 changed between the two phases: an A
\* record was set to 1.1.1.1 and a policy to 2.2.2.2/32, both accepted
C36_Witness ==
    /\ pc = "done"
    /\ \E k \in ARecordWrites : \E l \in PolicyWrites :
         /\ calls[k].ok /\ calls[l].ok
         /\ calls[k].content = IPv4A
         /\ calls[l].newIp = Cidr(IPv4B, "32")
    /\ ResolverAnswers("dns") = { IPv4A } /\ ResolverAnswers("access") = { IPv4B }

\* ------------------------------------------- claims on the ways the loop ends

\* startUpdateLoop has ended: it returned after the loop or it threw
LoopEnded == mode = "loop" /\ pc \in { "stopped", "threw" }

\* C37: raw-input mode and the key listener are held exactly while the loop is
\* active: on a terminal they are on while startUpdateLoop runs, and on every
\* way it ends, by cancellation or by an error thrown from a pass, raw mode
\* has been released and the key listener removed.
C37_RawModeHeldExactlyWhileActive ==
    mode = "loop" =>
        /\ rawMode = (isTTY /\ ~LoopEnded)
        /\ listening = (isTTY /\ ~LoopEnded)

\* ------------------------------------------------ claims on headless runs

\* C38: when stdin is not a TTY the loop installs no key listener and never
\* changes raw mode, so the cancellation flag is never cleared: the loop never
\* reaches Stopped, and as long as passes return, every wait whose deadline
\* lies within the time modelled is followed by a pass started at that
\* deadline.
C38_HeadlessNeverStops ==
    /\ []((mode = "loop" /\ ~isTTY) =>
            (~listening /\ ~rawMode /\ isRunning /\ cancelAt = -1 /\ pc # "stopped"))
    /\ [][ ~isTTY => (rawMode' = rawMode /\ listening' = listening) ]_vars
    /\ (mode = "loop" /\ ~isTTY /\ pc = "sleep" /\ nextCheck <= MaxTime)
           ~> (pc = "dns_begin" /\ lastStart = nextCheck /\ isRunning)

\* a headless loop starting its third pass two intervals after the first
C38_Witness ==
    /\ mode = "loop" /\ ~isTTY
    /\ pc = "dns_begin" /\ started = 3 /\ finished = 2
    /\ lastStart = 2 * IntervalSeconds(interval)
    /\ isRunning /\ ~listening /\ ~rawMode

\* ------------------------------------------------- claims on the interval

\* C39: the loop never runs with a non-positive interval: however the interval
\* is supplied, the effective interval is at least 1 minute, and a pass that
\* follows another starts at least one minute after that one returned.
C39_IntervalAtLeastOneMinute ==
    (mode = "loop" /\ started >= 1) =>
        /\ interval >= 1
        /\ (InPass(pc) /\ started >= 2) => lastStart - finishedAt >= SecondsPerMinute

\* ------------------------------------------------- claims on the store

\* C40: hasConfig and loadConfig agree: hasConfig() returns true if and only
\* if loadConfig() returns a configuration, whatever the file (absent, valid,
\* unreadable or corrupt) and the environment configuration (absent, valid),
\* so the program never announces a found configuration and then fails to
\* start a pass with 'No configuration found'.
C40_HasConfigAgreesWithLoadConfig ==
    /\ hasConfig(store) <=> loadConfig(store).present
    /\ ~(menuFrom = "found" /\ thrown = "No configuration found")

====
